---- MODULE Spec2Model ----
(***************************************************************************)
(* Model of the beam animator: the timeline resolver (apply_animations),   *)
(* the value interpolator (lerp, apply_easing, hex_to_rgb) and the frame   *)
(* scheduler (animate_script) of src/src/animator.rs.                      *)
(*                                                                         *)
(* f64 values are modelled bit-exactly (IEEE-754 binary64, round to        *)
(* nearest, ties to even) on arbitrary-precision naturals, because TLC's   *)
(* integers are 32 bits wide.  Infinities, NaN, subnormals and the sign of *)
(* zero are outside the model: the values used stay far from them.         *)
(***************************************************************************)
EXTENDS Integers, Sequences, FiniteSets, TLC

(***************************************************************************)
(* Arbitrary-precision naturals and f64 arithmetic.                        *)
(*                                                                         *)
(* A natural is a little-endian sequence of limbs with no most significant *)
(* zero limb; zero is the empty sequence.  A finite double is [s, e, m],   *)
(* value (-1)^s * m * 2^e, with m a natural of exactly MantBits bits, or   *)
(* zero (m empty, s = 0, e = 0).                                           *)
(*                                                                         *)
(* The operations are the arms of one recursive operator, Num, and are     *)
(* used through the named operators below, which keeps the expression      *)
(* tree TLC builds for an action small.                                    *)
(***************************************************************************)
LimbBits == 14

LimbBase == 2 ^ LimbBits

MantBits == 53

Pow2 == [n \in 0 .. 30 |-> 2 ^ n]

F64Zero == [s |-> 0, e |-> 0, m |-> << >>]

\* A mantissa as << high part, low HalfBits bits >>, for the division
HalfBits == 26

HalfBase == 2 ^ HalfBits

PairOf(m) ==
    << m[2] \div 4096 + m[3] * 4 + m[4] * 65536, m[1] + (m[2] % 4096) * 16384 >>

PairGe(x, y) == x[1] > y[1] \/ (x[1] = y[1] /\ x[2] >= y[2])

\* x - y for x >= y
PairSub(x, y) ==
    IF x[2] >= y[2] THEN << x[1] - y[1], x[2] - y[2] >>
    ELSE << x[1] - y[1] - 1, x[2] - y[2] + HalfBase >>

RECURSIVE Eval(_, _, _, _, _, _)

\* a without most significant zero limbs
BigNorm(a) == Eval("BigNorm", a, 0, 0, 0, 0)

\* the natural n < 2^31
BigFromInt(n) == Eval("BigFromInt", n, 0, 0, 0, 0)

\* the integer of a natural below 2^31
BigToInt(a) == Eval("BigToIntFrom", a, 1, 0, 0, 0)

BigLimb(a, j) == IF j <= Len(a) THEN a[j] ELSE 0

BigAdd(a, b) == Eval("BigAddFrom", a, b, 1, 0, 0)

\* a - b for a >= b
BigSub(a, b) == BigNorm(Eval("BigSubFrom", a, b, 1, 0, 0))

\* -1, 0, 1 as a < b, a = b, a > b
BigCmp(a, b) ==
    IF Len(a) < Len(b) THEN -1
    ELSE IF Len(a) > Len(b) THEN 1
    ELSE Eval("BigCmpFrom", a, b, Len(a), 0, 0)

\* a * n for 0 <= n <= 2^16
BigMulSmall(a, n) == IF n = 0 THEN << >> ELSE Eval("BigMulSmallFrom", a, n, 1, 0, 0)

\* a * LimbBase^n
BigShlLimbs(a, n) == IF a = << >> THEN << >> ELSE [j \in 1 .. n |-> 0] \o a

BigMul(a, b) == Eval("BigMulFrom", a, b, 1, 0, 0)

\* a * 2^n
BigShl(a, n) == BigShlLimbs(BigMulSmall(a, Pow2[n % LimbBits]), n \div LimbBits)

\* floor(a / n) for 1 <= n <= 2^16
BigDivSmall(a, n) == BigNorm(Eval("BigDivSmallFrom", a, n, Len(a), 0, 0))

\* floor(a / 2^n)
BigShr(a, n) == Eval("BigShr", a, n, 0, 0, 0)

\* the number of bits of an integer
IntBitLen(n) == Eval("IntBitLen", n, 0, 0, 0, 0)

BigBitLen(a) ==
    IF a = << >> THEN 0 ELSE LimbBits * (Len(a) - 1) + IntBitLen(a[Len(a)])

\* bit j (0 = least significant) of a
BigBit(a, j) == (BigLimb(a, (j \div LimbBits) + 1) \div Pow2[j % LimbBits]) % 2

\* <<quotient, remainder>> of a / b, b > 0, by binary long division
BigDivMod(a, b) == Eval("BigDivRange", a, b, BigBitLen(a) - 1, 0, << << >>, << >> >>)

\* a / 2^n rounded to the nearest natural, ties to even; sticky says that
\* the exact value lies strictly above a / 2^n
BigShrRound(a, n, sticky) == Eval("BigShrRound", a, n, sticky, 0, 0)

\* (-1)^s * n * 2^e (plus less than one unit of n when sticky), rounded to
\* the nearest double, ties to even
F64Round(s, n, e, sticky) == Eval("F64Round", s, n, e, sticky, 0)

\* `n as f64` for an integer n
F64FromInt(n) == Eval("F64FromInt", n, 0, 0, 0, 0)

F64IsZero(x) == x.m = << >>

F64Neg(x) == IF F64IsZero(x) THEN x ELSE [x EXCEPT !.s = 1 - x.s]

F64Mul(x, y) == Eval("F64Mul", x, y, 0, 0, 0)

F64Add(x, y) == Eval("F64Add", x, y, 0, 0, 0)

F64Sub(x, y) == F64Add(x, F64Neg(y))

\* x / y for y # 0
F64Div(x, y) == Eval("F64Div", x, y, 0, 0, 0)

F64Lt(x, y) == Eval("F64Lt", x, y, 0, 0, 0)

\* floor of |x| as a natural
F64FloorAbs(x) == Eval("F64FloorAbs", x, 0, 0, 0, 0)

F64IsInteger(x) == Eval("F64IsInteger", x, 0, 0, 0, 0)

\* `x.ceil() as u64` (a negative x casts to 0)
F64CeilU64(x) == Eval("F64CeilU64", x, 0, 0, 0, 0)

\* `x as u8`: truncates toward zero and saturates at 0 and 255
F64AsU8(x) == Eval("F64AsU8", x, 0, 0, 0, 0)

F64AsU32(x) == Eval("F64AsU32", x, 0, 0, 0, 0)

(***************************************************************************)
(* Option<T>: None is the empty sequence, Some(v) the sequence << v >>.    *)
(***************************************************************************)
None == << >>

Some(v) == << v >>

(***************************************************************************)
(* std::time::Duration: whole seconds and nanoseconds below one second.    *)
(***************************************************************************)
NanosPerSec == 1000000000

DurationFromSecs(secs) == [secs |-> secs, nanos |-> 0]

DurationFromMillis(ms) ==
    [secs |-> ms \div 1000, nanos |-> (ms % 1000) * 1000000]

DurLt(a, b) == a.secs < b.secs \/ (a.secs = b.secs /\ a.nanos < b.nanos)

DurGe(a, b) == ~DurLt(a, b)

\* a - b for a >= b (the subtraction panics otherwise)
DurSub(a, b) ==
    IF a.nanos >= b.nanos
    THEN [secs |-> a.secs - b.secs, nanos |-> a.nanos - b.nanos]
    ELSE [secs |-> a.secs - b.secs - 1, nanos |-> a.nanos + NanosPerSec - b.nanos]

\* Duration::as_secs_f64: (secs as f64) + (nanos as f64) / 1e9
AsSecsF64(d) == Eval("AsSecsF64", d, 0, 0, 0, 0)

\* Duration::from_secs_f64 for x >= 0: x * 1e9 nanoseconds, computed exactly
\* from the bits of x and rounded to the nearest nanosecond, ties to even
FromSecsF64(x) == Eval("FromSecsF64", x, 0, 0, 0, 0)

(***************************************************************************)
(* ast::Value and the scene data model.  A string is a sequence of         *)
(* one-character strings where its characters are inspected (colors).      *)
(***************************************************************************)
Number(n) == [k |-> "Number", n |-> n]

Tuple(x, y) == [k |-> "Tuple", x |-> x, y |-> y]

Color(hex) == [k |-> "Color", hex |-> hex]

String(str) == [k |-> "String", str |-> str]

Property(name, value) == [name |-> name, value |-> value]

Object(type, name, properties) ==
    [type |-> type, name |-> name, properties |-> properties]

Animation(start, end, target_object, property, to, easing) ==
    [start |-> start, end |-> end, target_object |-> target_object,
     property |-> property, to |-> to, easing |-> easing]

Timeline(animations) == [animations |-> animations]

Scene(name, items, timeline, duration) ==
    [name |-> name, items |-> items, timeline |-> timeline, duration |-> duration]

(***************************************************************************)
(* Value interpolator.                                                     *)
(***************************************************************************)
HexDigits ==
    << "0", "1", "2", "3", "4", "5", "6", "7", "8", "9",
       "a", "b", "c", "d", "e", "f" >>

UpperHexDigits == << "A", "B", "C", "D", "E", "F" >>

\* char::to_digit(16): the digit's value, or -1 for a character that is none
HexVal(c) ==
    IF \E i \in 1 .. 16 : HexDigits[i] = c
    THEN (CHOOSE i \in 1 .. 16 : HexDigits[i] = c) - 1
    ELSE IF \E i \in 1 .. 6 : UpperHexDigits[i] = c
    THEN (CHOOSE i \in 1 .. 6 : UpperHexDigits[i] = c) + 9
    ELSE -1

\* u8::from_str_radix(two characters, 16).unwrap_or(0); a leading '+' is
\* accepted as a sign
ParseHexByte(str) ==
    IF str[1] = "+"
    THEN (IF HexVal(str[2]) >= 0 THEN HexVal(str[2]) ELSE 0)
    ELSE IF HexVal(str[1]) >= 0 /\ HexVal(str[2]) >= 0
    THEN 16 * HexVal(str[1]) + HexVal(str[2])
    ELSE 0

RECURSIVE TrimStartHash(_)
TrimStartHash(str) ==
    IF str # << >> /\ str[1] = "#" THEN TrimStartHash(Tail(str)) ELSE str

hex_to_rgb(hex) ==
    LET h == TrimStartHash(hex)
    IN  IF Len(h) = 6
        THEN << ParseHexByte(SubSeq(h, 1, 2)), ParseHexByte(SubSeq(h, 3, 4)),
                ParseHexByte(SubSeq(h, 5, 6)) >>
        ELSE << 0, 0, 0 >>

\* format!("{:02x}", b)
FormatHexByte(b) == << HexDigits[(b \div 16) + 1], HexDigits[(b % 16) + 1] >>

\* Mutant of LerpChannel: the channel is rounded to the nearest integer
LerpChannelRounded(s, e, factor) ==
    F64AsU8(F64Add(F64Add(F64FromInt(s),
                          F64Mul(F64Sub(F64FromInt(e), F64FromInt(s)), factor)),
                   F64Div(F64FromInt(1), F64FromInt(2))))

\* s + (e - s) * factor
LerpF64(s, e, factor) == Eval("LerpF64", s, e, factor, 0, 0)

LerpChannel(s, e, factor) == Eval("LerpChannel", s, e, factor, 0, 0)

\* Mutant of lerp: the factor is ignored, the result is the midpoint
LerpMidpoint(start, end, factor) ==
    Eval("lerp", start, end, F64Div(F64FromInt(1), F64FromInt(2)), 0, 0)

\* Mutant of lerp: a pairing it does not interpolate keeps the start value
LerpKeepsStart(start, end, factor) ==
    IF start.k = end.k /\ start.k \in { "Number", "Tuple", "Color" }
    THEN Eval("lerp", start, end, factor, 0, 0)
    ELSE start

\* lerp(start, end, factor)
lerp(start, end, factor) == Eval("lerp", start, end, factor, 0, 0)

F64Half == F64Div(F64FromInt(1), F64FromInt(2))

\* apply_easing(t, easing_type)
apply_easing(t, easing_type) == Eval("apply_easing", t, easing_type, 0, 0, 0)

(***************************************************************************)
(* Timeline resolver: apply_animations.                                    *)
(***************************************************************************)
\* The keys of the HashMap animated_properties: the distinct
\* (target_object, property) pairs of the timeline
AnimatedKeys(timeline) ==
    { << timeline.animations[j].target_object, timeline.animations[j].property >> :
        j \in 1 .. Len(timeline.animations) }

\* HashMap::keys() iterates in an order the program does not control: every
\* enumeration of the keys is possible
KeyOrders(timeline) ==
    LET keys == AnimatedKeys(timeline)
        n    == Cardinality(keys)
    IN  { o \in [1 .. n -> keys] : \A a, b \in 1 .. n : a # b => o[a] # o[b] }

\* Mutant of InsertByStart: anim goes in front of the elements of its own
\* start (the sort is not stable)
RECURSIVE InsertBeforeTies(_, _)
InsertBeforeTies(sorted, anim) ==
    IF sorted = << >> THEN << anim >>
    ELSE IF ~DurLt(sorted[Len(sorted)].start, anim.start)
    THEN InsertBeforeTies(SubSeq(sorted, 1, Len(sorted) - 1), anim)
         \o << sorted[Len(sorted)] >>
    ELSE sorted \o << anim >>

\* insert anim behind every element whose start is not later (stable)
RECURSIVE InsertByStart(_, _)
InsertByStart(sorted, anim) ==
    IF sorted = << >> THEN << anim >>
    ELSE IF DurLt(anim.start, sorted[Len(sorted)].start)
    THEN InsertByStart(SubSeq(sorted, 1, Len(sorted) - 1), anim)
         \o << sorted[Len(sorted)] >>
    ELSE sorted \o << anim >>

\* Mutant of SortByStart: the animations are left in declaration order
DeclarationOrder(anims) == anims

\* sort_by_key(|a| a.start): a stable sort
RECURSIVE SortByStart(_)
SortByStart(anims) ==
    IF anims = << >> THEN << >>
    ELSE InsertByStart(SortByStart(SubSeq(anims, 1, Len(anims) - 1)),
                       anims[Len(anims)])

IsRelevant(anim, key) == anim.target_object = key[1] /\ anim.property = key[2]

\* Mutant of RelevantAnimations: the filter on the pair is missing
RelevantUnfiltered(timeline, key) == SortByStart(timeline.animations)

RelevantAnimations(timeline, key) ==
    SortByStart(SelectSeq(timeline.animations, LAMBDA a : IsRelevant(a, key)))

\* iter().find(|x| x.name == name): the index of the first match, 0 for none
FindByName(seq, name) ==
    IF \E j \in 1 .. Len(seq) : seq[j].name = name
    THEN CHOOSE j \in 1 .. Len(seq) :
            /\ seq[j].name = name
            /\ \A h \in 1 .. j - 1 : seq[h].name # name
    ELSE 0

\* Mutant of InitialValue: a pair the scene does not declare starts from 0
InitialValueDefaulted(scene, key) ==
    LET o == FindByName(scene.items, key[1])
    IN  IF o = 0 THEN Some(Number(F64Zero))
        ELSE LET p == FindByName(scene.items[o].properties, key[2])
             IN  IF p = 0 THEN Some(Number(F64Zero))
                 ELSE Some(scene.items[o].properties[p].value)

\* The declared value of the pair in the scene: Some(value), or None where
\* the code's expect() panics
InitialValue(scene, key) ==
    LET o == FindByName(scene.items, key[1])
    IN  IF o = 0 THEN None
        ELSE LET p == FindByName(scene.items[o].properties, key[2])
             IN  IF p = 0 THEN None
                 ELSE Some(scene.items[o].properties[p].value)

\* Mutant of Factor: the elapsed time is not divided by the length of the
\* range
FactorOfElapsed(anim, current_time) ==
    LET raw == AsSecsF64(DurSub(current_time, anim.start))
    IN  IF anim.easing # None THEN apply_easing(raw, anim.easing[1]) ELSE raw

\* Mutant of Factor: the easing is applied to the eased factor again
FactorEasedTwice(anim, current_time) ==
    LET total == AsSecsF64(DurSub(anim.end[1], anim.start))
        raw   == IF F64Lt(F64Zero, total)
                 THEN F64Div(AsSecsF64(DurSub(current_time, anim.start)), total)
                 ELSE F64FromInt(1)
    IN  IF anim.easing # None
        THEN apply_easing(apply_easing(raw, anim.easing[1]), anim.easing[1])
        ELSE raw

\* The factor of an animation that is interpolating at current_time
Factor(anim, current_time) == Eval("Factor", anim, current_time, 0, 0, 0)

\* Mutant of IsInterpolating: a range of no length interpolates too
InterpolatingZeroRange(anim, current_time) ==
    anim.end # None
    /\ (DurLt(current_time, anim.end[1]) \/ anim.end[1] = anim.start)

\* Mutant of IsInterpolating: the end bound is inclusive
InterpolatingThroughEnd(anim, current_time) ==
    anim.end # None /\ ~DurLt(anim.end[1], current_time)

\* An animation that has an end and has not reached it
IsInterpolating(anim, current_time) ==
    anim.end # None /\ DurLt(current_time, anim.end[1])

\* Mutants of Started: the start bound is exclusive; the start is ignored
StartedStrict(anim, current_time) == DurLt(anim.start, current_time)

StartedAlways(anim, current_time) == TRUE

\* current_time >= anim.start
Started(anim, current_time) == DurGe(current_time, anim.start)

\* Mutant of WalkAnimations: a finished animation does not become the new
\* base (final_value = end_value is missing)
RECURSIVE WalkNoChain(_, _, _, _)
WalkNoChain(anims, j, final_value, current_time) ==
    IF j > Len(anims) THEN final_value
    ELSE IF Started(anims[j], current_time)
    THEN IF IsInterpolating(anims[j], current_time)
         THEN lerp(final_value, anims[j].to, Factor(anims[j], current_time))
         ELSE IF j = Len(anims) THEN anims[j].to
         ELSE WalkNoChain(anims, j + 1, final_value, current_time)
    ELSE final_value

\* Mutant of WalkAnimations: the loop goes on after an interpolation (the
\* break is missing)
RECURSIVE WalkNoBreak(_, _, _, _)
WalkNoBreak(anims, j, final_value, current_time) ==
    IF j > Len(anims) THEN final_value
    ELSE IF Started(anims[j], current_time)
    THEN IF IsInterpolating(anims[j], current_time)
         THEN WalkNoBreak(anims, j + 1,
                          lerp(final_value, anims[j].to, Factor(anims[j], current_time)),
                          current_time)
         ELSE WalkNoBreak(anims, j + 1, anims[j].to, current_time)
    ELSE final_value

\* The loop over relevant_animations from index j on, final_value so far
WalkAnimations(anims, j, final_value, current_time) ==
    Eval("WalkAnimations", anims, j, final_value, current_time, 0)

\* The value computed for one pair whose declared value is initial_value
ResolvedValue(timeline, key, initial_value, current_time) ==
    Eval("ResolvedValue", timeline, key, initial_value, current_time, 0)

\* Mutant of WriteProperty: the property is not looked up by name, the
\* first property of the object is written
WriteFirstProperty(scene, key, value) ==
    LET o == FindByName(scene.items, key[1])
    IN  IF o = 0 THEN scene
        ELSE [scene EXCEPT !.items[o].properties[1].value = value]

\* Mutant of WriteProperty: the object is not looked up by name, the
\* property of that name is written in every object that has one
WriteNamedProperty(scene, key, value) ==
    [scene EXCEPT !.items =
        [o \in DOMAIN scene.items |->
            LET p == FindByName(scene.items[o].properties, key[2])
            IN  IF p = 0 THEN scene.items[o]
                ELSE [scene.items[o] EXCEPT !.properties[p].value = value]]]

\* The scene with the pair's property set to value (first object of the
\* name, first property of the name)
WriteProperty(scene, key, value) ==
    LET o == FindByName(scene.items, key[1])
    IN  IF o = 0 THEN scene
        ELSE LET p == FindByName(scene.items[o].properties, key[2])
             IN  IF p = 0 THEN scene
                 ELSE [scene EXCEPT !.items[o].properties[p].value = value]

\* One iteration of the loop over the keys, on the scene passed by &mut:
\* the scene afterwards, or a panic
ResolveKey(scene, timeline, key, current_time) ==
    Eval("ResolveKey", scene, timeline, key, current_time, 0)

ApplyFrom(scene, timeline, order, j, current_time) ==
    Eval("ApplyFrom", scene, timeline, order, j, current_time)

\* apply_animations(&mut scene, timeline, current_time) when the HashMap
\* yields its keys in the given order
apply_animations(scene, timeline, current_time, order) ==
    ApplyFrom(scene, timeline, order, 1, current_time)

\* ast::Camera
Camera(properties) == [properties |-> properties]

\* The first camera property of that name, when it is a Number
CameraNumber(camera, name) ==
    IF camera = None THEN None
    ELSE LET p == FindByName(camera[1].properties, name)
         IN  IF p = 0 THEN None
             ELSE IF camera[1].properties[p].value.k = "Number"
             THEN Some(camera[1].properties[p].value.n)
             ELSE None

(***************************************************************************)
(* Frame scheduler: frame count and frame timestamps of animate_script.    *)
(***************************************************************************)
FRAME_RATE == 60

\* scene.duration.unwrap_or_else(|| Duration::from_secs(2))
SceneDuration(duration) ==
    IF duration = None THEN DurationFromSecs(2) ELSE duration[1]

\* (duration.as_secs_f64() * FRAME_RATE as f64).ceil() as u64
NumFrames(duration) == Eval("NumFrames", duration, 0, 0, 0, 0)

\* Duration::from_secs_f64(i as f64 / FRAME_RATE as f64)
FrameTime(n) == Eval("FrameTime", n, 0, 0, 0, 0)

(***************************************************************************)
(* Eval: the arithmetic above, one arm per operation.  Every operator      *)
(* that computes with f64 values is evaluated inside this one recursive    *)
(* operator.                                                               *)
(***************************************************************************)
Eval(op, a, b, c, d, e) ==
    CASE op = "BigAddFrom" ->
            \* limbs c.. of a + b, with carry d
            IF c > Len(a) /\ c > Len(b)
            THEN (IF d = 0 THEN << >> ELSE << d >>)
            ELSE LET t == BigLimb(a, c) + BigLimb(b, c) + d
                 IN  << t % LimbBase >>
                     \o Eval("BigAddFrom", a, b, c + 1, t \div LimbBase, 0)
      [] op = "BigMulSmallFrom" ->
            \* limbs c.. of a * b, b an integer, with carry d
            IF c > Len(a) THEN BigFromInt(d)
            ELSE LET t == a[c] * b + d
                 IN  << t % LimbBase >>
                     \o Eval("BigMulSmallFrom", a, b, c + 1, t \div LimbBase, 0)
      [] op = "BigSubFrom" ->
            \* limbs c.. of a - b, with borrow d
            IF c > Len(a) THEN << >>
            ELSE LET t == a[c] - BigLimb(b, c) - d
                 IN  IF t < 0
                     THEN << t + LimbBase >> \o Eval("BigSubFrom", a, b, c + 1, 1, 0)
                     ELSE << t >> \o Eval("BigSubFrom", a, b, c + 1, 0, 0)
      [] op = "BigCmpFrom" ->
            \* compare limbs c down to 1 of a and b (of equal length)
            IF c = 0 THEN 0
            ELSE IF a[c] < b[c] THEN -1
            ELSE IF a[c] > b[c] THEN 1
            ELSE Eval("BigCmpFrom", a, b, c - 1, 0, 0)
      [] op = "BigNorm" ->
            IF a = << >> THEN << >>
            ELSE IF a[Len(a)] = 0 THEN BigNorm(SubSeq(a, 1, Len(a) - 1))
            ELSE a
      [] op = "BigFromInt" ->
            IF a = 0 THEN << >>
            ELSE << a % LimbBase >> \o BigFromInt(a \div LimbBase)
      [] op = "BigToIntFrom" ->
            IF b > Len(a) THEN 0
            ELSE a[b] + LimbBase * Eval("BigToIntFrom", a, b + 1, 0, 0, 0)
      [] op = "IntBitLen" ->
            IF a = 0 THEN 0 ELSE 1 + IntBitLen(a \div 2)
      [] op = "BigMulFrom" ->
            \* a * (limbs c.. of b)
            IF c > Len(b) THEN << >>
            ELSE BigAdd(BigShlLimbs(BigMulSmall(a, b[c]), c - 1),
                        Eval("BigMulFrom", a, b, c + 1, 0, 0))
      [] op = "BigDivSmallFrom" ->
            \* limbs c down to 1 of floor(a / b), b an integer, remainder d
            IF c = 0 THEN << >>
            ELSE LET t == d * LimbBase + a[c]
                 IN  Eval("BigDivSmallFrom", a, b, c - 1, t % b, 0) \o << t \div b >>
      [] op = "BigShr" ->
            LET drop == b \div LimbBits
            IN  IF drop >= Len(a) THEN << >>
                ELSE BigDivSmall(SubSeq(a, drop + 1, Len(a)), Pow2[b % LimbBits])
      [] op = "BigDivStep" ->
            \* one step of the long division of a by b at bit c of a: e is the
            \* <<quotient, remainder>> of the bits above c
            LET r2 == BigAdd(BigMulSmall(e[2], 2), BigFromInt(BigBit(a, c)))
                ge == BigCmp(r2, b) >= 0
            IN  << BigAdd(BigMulSmall(e[1], 2), BigFromInt(IF ge THEN 1 ELSE 0)),
                   IF ge THEN BigSub(r2, b) ELSE r2 >>
      [] op = "BigDivRange" ->
            \* the steps for bits c down to d, split in halves to keep the
            \* evaluation shallow
            IF c < d THEN e
            ELSE IF c = d THEN Eval("BigDivStep", a, b, c, 0, e)
            ELSE LET mid  == (c + d + 1) \div 2
                     half == Eval("BigDivRange", a, b, c, mid, e)
                 IN  IF Len(half[1]) + Len(half[2]) >= 0
                     THEN Eval("BigDivRange", a, b, mid - 1, d, half)
                     ELSE half
      [] op = "BigShrRound" ->
            IF b = 0 THEN a
            ELSE LET q    == BigShr(a, b)
                     rem  == BigSub(a, BigShl(q, b))
                     half == BigShl(<< 1 >>, b - 1)
                     cmp  == BigCmp(rem, half)
                     up   == \/ cmp > 0
                             \/ cmp = 0 /\ c
                             \/ cmp = 0 /\ BigBit(q, 0) = 1
                 IN  IF up THEN BigAdd(q, << 1 >>) ELSE q
      [] op = "F64Round" ->
            \* sign a, natural b, exponent c, sticky d
            IF b = << >> THEN F64Zero
            ELSE LET len == BigBitLen(b)
                 IN  IF len <= MantBits
                     THEN [s |-> a, e |-> c - (MantBits - len),
                           m |-> BigShl(b, MantBits - len)]
                     ELSE LET q == BigShrRound(b, len - MantBits, d)
                          IN  IF BigBitLen(q) > MantBits
                              THEN [s |-> a, e |-> c + (len - MantBits) + 1,
                                    m |-> BigShr(q, 1)]
                              ELSE [s |-> a, e |-> c + (len - MantBits), m |-> q]
      [] op = "F64Mul" ->
            IF F64IsZero(a) \/ F64IsZero(b) THEN F64Zero
            ELSE F64Round((a.s + b.s) % 2, BigMul(a.m, b.m), a.e + b.e, FALSE)
      [] op = "F64Add" ->
            IF F64IsZero(a) THEN b
            ELSE IF F64IsZero(b) THEN a
            ELSE LET ex  == IF a.e < b.e THEN a.e ELSE b.e
                     am  == BigShl(a.m, a.e - ex)
                     bm  == BigShl(b.m, b.e - ex)
                     cmp == BigCmp(am, bm)
                 IN  IF a.s = b.s THEN F64Round(a.s, BigAdd(am, bm), ex, FALSE)
                     ELSE IF cmp = 0 THEN F64Zero
                     ELSE IF cmp > 0 THEN F64Round(a.s, BigSub(am, bm), ex, FALSE)
                     ELSE F64Round(b.s, BigSub(bm, am), ex, FALSE)
      [] op = "F64DivStep" ->
            \* one step of the long division of two mantissas: a is the
            \* remainder and the quotient so far, << rh, rl, qh, ql >>, b the
            \* divisor << bh, bl >>
            LET r2 == << 2 * a[1] + (2 * a[2]) \div HalfBase, (2 * a[2]) % HalfBase >>
                ge == PairGe(r2, b)
                r  == IF ge THEN PairSub(r2, b) ELSE r2
                q2 == 2 * a[4] + (IF ge THEN 1 ELSE 0)
            IN  << r[1], r[2], 2 * a[3] + q2 \div HalfBase, q2 % HalfBase >>
      [] op = "F64DivRange" ->
            \* c steps, split in halves to keep the evaluation shallow
            IF c = 0 THEN a
            ELSE IF c = 1 THEN Eval("F64DivStep", a, b, 0, 0, 0)
            ELSE LET half == Eval("F64DivRange", a, b, c \div 2, 0, 0)
                 IN  IF half[1] + half[2] + half[3] + half[4] >= 0
                     THEN Eval("F64DivRange", half, b, c - c \div 2, 0, 0)
                     ELSE half
      [] op = "F64Div" ->
            \* floor(a.m * 2^(MantBits + 2) / b.m) and whether a remainder is
            \* left, rounded once: both mantissas have MantBits bits
            IF F64IsZero(a) THEN F64Zero
            ELSE LET am  == PairOf(a.m)
                     bm  == PairOf(b.m)
                     r0  == IF PairGe(am, bm) THEN PairSub(am, bm) ELSE am
                     fin == Eval("F64DivRange",
                                 << r0[1], r0[2], 0, IF PairGe(am, bm) THEN 1 ELSE 0 >>,
                                 bm, MantBits + 2, 0, 0)
                     q   == BigAdd(BigShl(BigFromInt(fin[3]), HalfBits),
                                   BigFromInt(fin[4]))
                 IN  F64Round((a.s + b.s) % 2, q, a.e - b.e - (MantBits + 2),
                              fin[1] # 0 \/ fin[2] # 0)
      [] op = "F64FromInt" ->
            \* `a as f64` for an integer a
            IF a < 0 THEN F64Round(1, BigFromInt(-a), 0, FALSE)
            ELSE F64Round(0, BigFromInt(a), 0, FALSE)
      [] op = "F64Lt" ->
            LET diff == F64Sub(a, b) IN ~F64IsZero(diff) /\ diff.s = 1
      [] op = "F64FloorAbs" ->
            \* floor of |a| as a natural
            IF F64IsZero(a) THEN << >>
            ELSE IF a.e >= 0 THEN BigShl(a.m, a.e)
            ELSE BigShr(a.m, -a.e)
      [] op = "F64IsInteger" ->
            \/ F64IsZero(a)
            \/ a.e >= 0
            \/ BigShl(BigShr(a.m, -a.e), -a.e) = a.m
      [] op = "F64CeilU64" ->
            \* `a.ceil() as u64` (a negative a casts to 0)
            IF F64IsZero(a) \/ a.s = 1 THEN 0
            ELSE BigToInt(F64FloorAbs(a)) + (IF F64IsInteger(a) THEN 0 ELSE 1)
      [] op = "F64AsU8" ->
            \* `a as u8`: truncates toward zero and saturates at 0 and 255
            IF F64IsZero(a) \/ a.s = 1 THEN 0
            ELSE IF BigCmp(F64FloorAbs(a), BigFromInt(255)) > 0 THEN 255
            ELSE BigToInt(F64FloorAbs(a))
      [] op = "F64AsU32" ->
            \* `a as u32` for a below 2^31: truncates toward zero, a negative
            \* a casts to 0
            IF F64IsZero(a) \/ a.s = 1 THEN 0 ELSE BigToInt(F64FloorAbs(a))
      [] op = "AsSecsF64" ->
            \* Duration::as_secs_f64: secs as f64 + nanos as f64 / 1e9
            F64Add(F64FromInt(a.secs),
                   F64Div(F64FromInt(a.nanos), F64FromInt(NanosPerSec)))
      [] op = "FromSecsF64" ->
            \* Duration::from_secs_f64 for a >= 0: a * 1e9 nanoseconds,
            \* computed exactly from the bits of a and rounded to the nearest
            \* nanosecond, ties to even
            IF F64IsZero(a) THEN DurationFromSecs(0)
            ELSE LET exact == BigMul(a.m, BigFromInt(NanosPerSec))
                     total == IF a.e >= 0 THEN BigShl(exact, a.e)
                              ELSE BigShrRound(exact, -a.e, FALSE)
                 IN  IF BigBitLen(total) <= 30
                     THEN [secs  |-> BigToInt(total) \div NanosPerSec,
                           nanos |-> BigToInt(total) % NanosPerSec]
                     ELSE LET qr == BigDivMod(total, BigFromInt(NanosPerSec))
                          IN  [secs |-> BigToInt(qr[1]), nanos |-> BigToInt(qr[2])]
      [] op = "LerpF64" ->
            \* s + (e - s) * factor, for s = a, e = b, factor = c
            F64Add(a, F64Mul(F64Sub(b, a), c))
      [] op = "LerpChannel" ->
            \* (s as f64 + (e as f64 - s as f64) * factor) as u8
            F64AsU8(LerpF64(F64FromInt(a), F64FromInt(b), c))
      [] op = "lerp" ->
            \* lerp(start, end, factor), for start = a, end = b, factor = c
            IF a.k = "Number" /\ b.k = "Number"
            THEN Number(LerpF64(a.n, b.n, c))
            ELSE IF a.k = "Tuple" /\ b.k = "Tuple"
            THEN Tuple(LerpF64(a.x, b.x, c), LerpF64(a.y, b.y, c))
            ELSE IF a.k = "Color" /\ b.k = "Color"
            THEN LET s_rgb == hex_to_rgb(a.hex)
                     e_rgb == hex_to_rgb(b.hex)
                 IN  Color(<< "#" >>
                           \o FormatHexByte(LerpChannel(s_rgb[1], e_rgb[1], c))
                           \o FormatHexByte(LerpChannel(s_rgb[2], e_rgb[2], c))
                           \o FormatHexByte(LerpChannel(s_rgb[3], e_rgb[3], c)))
            ELSE b
      [] op = "apply_easing" ->
            \* apply_easing(t, easing_type), for t = a, easing_type = b
            IF b = "ease_in" THEN F64Mul(a, a)
            ELSE IF b = "ease_out"
            THEN F64Mul(a, F64Sub(F64FromInt(2), a))
            ELSE IF b = "ease_in_out"
            THEN (IF F64Lt(a, F64Half)
                  THEN F64Mul(F64Mul(F64FromInt(2), a), a)
                  ELSE F64Add(F64FromInt(-1),
                              F64Mul(F64Sub(F64FromInt(4), F64Mul(F64FromInt(2), a)), a)))
            ELSE a
      [] op = "Factor" ->
            \* the factor of the animation a, interpolating at current_time b
            LET animation_duration == DurSub(a.end[1], a.start)
                elapsed            == DurSub(b, a.start)
                total              == AsSecsF64(animation_duration)
                raw == IF F64Lt(F64Zero, total)
                       THEN F64Div(AsSecsF64(elapsed), total)
                       ELSE F64FromInt(1)
            IN  IF a.easing # None THEN apply_easing(raw, a.easing[1]) ELSE raw
      [] op = "WalkAnimations" ->
            \* the loop over relevant_animations a from index b on, with
            \* final_value c so far, at current_time d
            IF b > Len(a) THEN c
            ELSE IF Started(a[b], d)
            THEN IF IsInterpolating(a[b], d)
                 THEN lerp(c, a[b].to, Factor(a[b], d))
                 ELSE WalkAnimations(a, b + 1, a[b].to, d)
            ELSE c
      [] op = "ResolvedValue" ->
            \* the value computed for the pair b of timeline a whose declared
            \* value is c, at current_time d
            WalkAnimations(RelevantAnimations(a, b), 1, c, d)
      [] op = "ResolveKey" ->
            \* one iteration of the loop over the keys, for the key c of
            \* timeline b at current_time d, on the scene a passed by &mut:
            \* the scene afterwards, or a panic
            LET initial_value == InitialValue(a, c)
            IN  IF initial_value = None
                THEN [panicked |-> TRUE, scene |-> a]
                ELSE [panicked |-> FALSE,
                      scene |-> WriteProperty(a, c,
                                    ResolvedValue(b, c, initial_value[1], d))]
      [] op = "ApplyFrom" ->
            \* the loop over the keys c of timeline b from index d on, on the
            \* scene a, at current_time e
            IF d > Len(c) THEN [panicked |-> FALSE, scene |-> a]
            ELSE LET r == ResolveKey(a, b, c[d], e)
                 IN  IF r.panicked THEN r
                     ELSE ApplyFrom(r.scene, b, c, d + 1, e)
      [] op = "NumFrames" ->
            \* (duration.as_secs_f64() * FRAME_RATE as f64).ceil() as u64
            F64CeilU64(F64Mul(AsSecsF64(SceneDuration(a)), F64FromInt(FRAME_RATE)))
      [] op = "FrameTime" ->
            \* Duration::from_secs_f64(i as f64 / FRAME_RATE as f64)
            FromSecsF64(F64Div(F64FromInt(a), F64FromInt(FRAME_RATE)))
      [] op = "CameraDim" ->
            \* the camera's Number property b `as u32`, or the default c
            LET n == CameraNumber(a, b)
            IN  IF n = None THEN c ELSE F64AsU32(n[1])

(***************************************************************************)
(* State.                                                                  *)
(*   script .. renders     the run of animate_script; renders counts the   *)
(*                         calls of a renderer per scene and frame         *)
(*   res                   one call of apply_animations, key by key        *)
(*   fc                    the frame count computed for one duration       *)
(*   parse                 parse_str, from the linking of the timelines on *)
(*   lerp_call             one call of lerp: its arguments and its result  *)
(***************************************************************************)
VARIABLES script, gpu, pc, k, frame_offset, num_frames, i, frame_scene,
          image, tasks, slots, gpu_state, total_frames, ffmpeg, renders,
          res, fc, parse, lerp_call

run_vars == << script, gpu, pc, k, frame_offset, num_frames, i, frame_scene,
               image, tasks, slots, gpu_state, total_frames, ffmpeg, renders >>

vars == << script, gpu, pc, k, frame_offset, num_frames, i, frame_scene,
           image, tasks, slots, gpu_state, total_frames, ffmpeg, renders,
           res, fc, parse, lerp_call >>

\* No renderer has been called
NoCalls == << >>

\* animate_script is not running
RunIdle ==
    /\ script = [camera |-> None, scenes |-> << >>]
    /\ gpu = FALSE
    /\ pc = "idle"
    /\ k = 0
    /\ frame_offset = 0
    /\ num_frames = 0
    /\ i = 0
    /\ frame_scene = None
    /\ image = None
    /\ tasks = << >>
    /\ slots = << >>
    /\ gpu_state = None
    /\ total_frames = 0
    /\ ffmpeg = None
    /\ renders = NoCalls

ResIdle == [phase |-> "idle"]

FcIdle == [phase |-> "idle"]

ParseIdle == [phase |-> "idle"]

LerpIdle == [phase |-> "idle"]

(***************************************************************************)
(* Rendering, as far as animate_script depends on it: an image is          *)
(* identified by the renderer that drew it, its size and the items drawn.  *)
(***************************************************************************)
DEFAULT_WIDTH == 1920

DEFAULT_HEIGHT == 1080

GPU_DEFAULT_WIDTH == 1280

GPU_DEFAULT_HEIGHT == 720

CameraDim(camera, name, default) == Eval("CameraDim", camera, name, default, 0, 0)

\* renderer::render_scene(scene, camera)
render_scene(scene, camera) ==
    [renderer |-> "cpu",
     width    |-> CameraDim(camera, "width", DEFAULT_WIDTH),
     height   |-> CameraDim(camera, "height", DEFAULT_HEIGHT),
     items    |-> scene.items]

\* gpu_renderer::render_scene_gpu(state, items, camera)
render_scene_gpu(items, camera) ==
    [renderer |-> "gpu",
     width    |-> CameraDim(camera, "width", GPU_DEFAULT_WIDTH),
     height   |-> CameraDim(camera, "height", GPU_DEFAULT_HEIGHT),
     items    |-> items]

\* The -s argument handed to ffmpeg
FfmpegSize(camera) ==
    << CameraDim(camera, "width", 1920), CameraDim(camera, "height", 1080) >>

(***************************************************************************)
(* The temp_frames directory: None when absent, else Some(files), files a  *)
(* function from frame index to the image saved there and the number of    *)
(* times the path was written.                                             *)
(***************************************************************************)
EmptyDir == << >>

SaveFrame(dir, index, img) ==
    Some([x \in DOMAIN dir[1] \cup { index } |->
            IF x = index
            THEN [image  |-> img,
                  writes |-> IF index \in DOMAIN dir[1]
                             THEN dir[1][index].writes + 1 ELSE 1]
            ELSE dir[1][x]])

(***************************************************************************)
(* animate_script(script, output_base, gpu).                               *)
(***************************************************************************)
\* if gpu { Some(GpuRendererState::new()) } else { None }
GpuStateFor(gpu_flag) ==
    IF gpu_flag THEN Some([holders |-> {}, calls |-> << >>, finished |-> 0])
    ELSE None

\* Mutant of AfterRenderCall: the render call is not waited for
RenderNotAwaited(waiting, calling) == calling

\* pollster::block_on(render_scene_gpu(..)): the loop waits for the call it
\* has made to complete
AfterRenderCall(waiting, calling) == waiting

\* Mutant of NextOffset: the offset is not advanced
OffsetKept(offset, count) == offset

\* frame_offset += num_frames_for_scene
\* Mutant of NextOffset: the offset advances by one per scene
OffsetByOne(offset, count) == offset + 1

NextOffset(offset, count) == offset + count

\* Mutant of FrameSceneInit: the frame's scene is one another frame holds
FrameSceneShared(scene, held) ==
    IF held = {} THEN scene ELSE CHOOSE s \in held : TRUE

\* let mut frame_scene = scene.clone(): held are the frame scenes alive in
\* other tasks
FrameSceneInit(scene, held) == scene

\* Mutant of SceneAfterResolve: apply_animations works on the scene itself
SceneResolvedInPlace(scene, resolved) == resolved

\* The declared scene after apply_animations(&mut frame_scene, ..) has
\* written to the clone
SceneAfterResolve(scene, resolved) == scene

\* Mutant of AfterStaticSave: the scene is rendered again for the next
\* frame index
RenderAgain(saving, rendering) == rendering

\* A static scene is rendered before the loop over its frame indices: a
\* save is followed by the next save
AfterStaticSave(saving, rendering) == saving

\* A call of render_scene or render_scene_gpu for frame j of the n-th scene;
\* the one call for a scene without a timeline is for no frame
RenderCall(n, frame) == [scene |-> n, frame |-> frame]

\* calls with one more call of call
CountCall(calls, call) ==
    [x \in DOMAIN calls \cup { call } |->
        IF x \in DOMAIN calls
        THEN (IF x = call THEN calls[x] + 1 ELSE calls[x])
        ELSE 1]

RECURSIVE SumFrames(_, _)
SumFrames(scenes, n) ==
    IF n = 0 THEN 0
    ELSE SumFrames(scenes, n - 1) + NumFrames(scenes[n].duration)

ReadyTask == [pc |-> "ready", frame_scene |-> None, image |-> None]

ReadyTasks(n) == [j \in 0 .. n - 1 |-> ReadyTask]

CurrentScene == script.scenes[k]

\* The frame scenes other tasks hold while task j resolves
HeldBy(j) ==
    { tasks[h].frame_scene[1] :
        h \in { g \in DOMAIN tasks : g # j /\ tasks[g].frame_scene # None } }

\* Lines 13-51: nothing to do for no scenes; else the temp directory is
\* emptied, the device context is made and the frames are counted
Setup ==
    /\ pc = "start"
    /\ IF script.scenes = << >>
       THEN /\ pc' = "done"
            /\ UNCHANGED << k, slots, gpu_state, total_frames >>
       ELSE /\ pc' = "scene"
            /\ k' = 1
            /\ slots' = Some(EmptyDir)
            /\ gpu_state' = GpuStateFor(gpu)
            /\ total_frames' = SumFrames(script.scenes, Len(script.scenes))
    /\ UNCHANGED << script, gpu, frame_offset, num_frames, i, frame_scene,
                    image, tasks, ffmpeg, res, fc, parse, lerp_call, renders >>

\* Lines 54-62, 89-91, 101: the head of the loop over the scenes
BeginScene ==
    /\ pc = "scene"
    /\ LET n == NumFrames(CurrentScene.duration)
       IN  /\ num_frames' = n
           /\ i' = 0
           /\ IF CurrentScene.timeline # None
              THEN IF gpu
                   THEN pc' = "gpu_frame" /\ tasks' = << >>
                   ELSE pc' = "par_frames" /\ tasks' = ReadyTasks(n)
              ELSE IF gpu
                   THEN pc' = "gpu_render" /\ tasks' = << >>
                   ELSE pc' = "cpu_render" /\ tasks' = << >>
    /\ UNCHANGED << script, gpu, k, frame_offset, frame_scene, image, slots,
                    gpu_state, total_frames, ffmpeg, res, fc, parse, lerp_call, renders >>

\* Lines 63-66: frame i of an animated scene in GPU mode is resolved
GpuResolve ==
    /\ pc = "gpu_frame"
    /\ i < num_frames
    /\ \E order \in KeyOrders(CurrentScene.timeline[1]) :
          LET r == apply_animations(FrameSceneInit(CurrentScene, {}),
                                    CurrentScene.timeline[1], FrameTime(i), order)
          IN  IF r.panicked
              THEN pc' = "panicked" /\ UNCHANGED << script, frame_scene >>
              ELSE /\ pc' = "gpu_render"
                   /\ frame_scene' = Some(r.scene)
                   /\ script' = [script EXCEPT !.scenes[k] =
                                    SceneAfterResolve(CurrentScene, r.scene)]
    /\ UNCHANGED << gpu, k, frame_offset, num_frames, i, image, tasks, slots,
                    gpu_state, total_frames, ffmpeg, res, fc, parse, lerp_call, renders >>

\* Lines 68-69, 92-93: render_scene_gpu is called with gpu_state.as_mut()
GpuRenderBegin ==
    /\ pc = "gpu_render"
    /\ gpu_state' = Some([gpu_state[1] EXCEPT
                            !.holders = @ \cup { << k, i >> },
                            !.calls = Append(@, << k, i >>)])
    /\ renders' = CountCall(renders,
                            RenderCall(k, IF CurrentScene.timeline # None
                                          THEN Some(i) ELSE None))
    /\ pc' = AfterRenderCall("gpu_rendering", "gpu_render")
    /\ UNCHANGED << script, gpu, k, frame_offset, num_frames, i, frame_scene,
                    image, tasks, slots, total_frames, ffmpeg, res, fc, parse, lerp_call >>

\* Lines 68-72, 92-96: block_on returns the image
GpuRenderEnd ==
    /\ pc = "gpu_rendering"
    /\ gpu_state' = Some([gpu_state[1] EXCEPT
                            !.holders = @ \ { << k, i >> },
                            !.finished = @ + 1])
    /\ image' = Some(render_scene_gpu(
                        IF CurrentScene.timeline # None
                        THEN frame_scene[1].items ELSE CurrentScene.items,
                        script.camera))
    /\ pc' = IF CurrentScene.timeline # None THEN "gpu_save" ELSE "gpu_static_save"
    /\ UNCHANGED << script, gpu, k, frame_offset, num_frames, i, frame_scene,
                    tasks, slots, total_frames, ffmpeg, res, fc, parse, lerp_call, renders >>

\* Lines 73-75: the frame is saved and the loop goes to the next index
GpuSave ==
    /\ pc = "gpu_save"
    /\ slots' = SaveFrame(slots, frame_offset + i, image[1])
    /\ i' = i + 1
    /\ frame_scene' = None
    /\ image' = None
    /\ pc' = "gpu_frame"
    /\ UNCHANGED << script, gpu, k, frame_offset, num_frames, tasks,
                    gpu_state, total_frames, ffmpeg, res, fc, parse, lerp_call, renders >>

\* Lines 97-100: the one image of a static scene is saved for index i
GpuStaticSave ==
    /\ pc = "gpu_static_save"
    /\ i < num_frames
    /\ slots' = SaveFrame(slots, frame_offset + i, image[1])
    /\ i' = i + 1
    /\ pc' = AfterStaticSave("gpu_static_save", "gpu_render")
    /\ UNCHANGED << script, gpu, k, frame_offset, num_frames, frame_scene,
                    image, tasks, gpu_state, total_frames, ffmpeg, renders,
                    res, fc, parse, lerp_call >>

\* Line 102: a static scene is rendered once on the CPU
CpuStaticRender ==
    /\ pc = "cpu_render"
    /\ image' = Some(render_scene(CurrentScene, script.camera))
    /\ renders' = CountCall(renders, RenderCall(k, None))
    /\ tasks' = ReadyTasks(num_frames)
    /\ pc' = "par_saves"
    /\ UNCHANGED << script, gpu, k, frame_offset, num_frames, i, frame_scene,
                    slots, gpu_state, total_frames, ffmpeg, res, fc, parse, lerp_call >>

\* Lines 103-108: a worker saves the image for index j
TaskSaveStatic(j) ==
    /\ pc = "par_saves"
    /\ tasks[j].pc = "ready"
    /\ slots' = SaveFrame(slots, frame_offset + j, image[1])
    /\ tasks' = [tasks EXCEPT ![j].pc = "done"]
    /\ UNCHANGED << script, gpu, pc, k, frame_offset, num_frames, i,
                    frame_scene, image, gpu_state, total_frames, ffmpeg, res, fc, parse, lerp_call, renders >>

\* Lines 80-82: a worker clones the scene and resolves it for index j
TaskResolve(j) ==
    /\ pc = "par_frames"
    /\ tasks[j].pc = "ready"
    /\ \E order \in KeyOrders(CurrentScene.timeline[1]) :
          LET r == apply_animations(FrameSceneInit(CurrentScene, HeldBy(j)),
                                    CurrentScene.timeline[1], FrameTime(j), order)
          IN  IF r.panicked
              THEN /\ tasks' = [tasks EXCEPT ![j].pc = "panicked"]
                   /\ UNCHANGED script
              ELSE /\ tasks' = [tasks EXCEPT ![j].pc = "resolved",
                                             ![j].frame_scene = Some(r.scene)]
                   /\ script' = [script EXCEPT !.scenes[k] =
                                    SceneAfterResolve(CurrentScene, r.scene)]
    /\ UNCHANGED << gpu, pc, k, frame_offset, num_frames, i, frame_scene,
                    image, slots, gpu_state, total_frames, ffmpeg, res, fc, parse, lerp_call, renders >>

\* Line 84: the worker renders its resolved scene on the CPU
TaskRender(j) ==
    /\ pc = "par_frames"
    /\ tasks[j].pc = "resolved"
    /\ tasks' = [tasks EXCEPT
                    ![j].pc = "rendered",
                    ![j].image = Some(render_scene(tasks[j].frame_scene[1],
                                                   script.camera))]
    /\ renders' = CountCall(renders, RenderCall(k, Some(j)))
    /\ UNCHANGED << script, gpu, pc, k, frame_offset, num_frames, i,
                    frame_scene, image, slots, gpu_state, total_frames,
                    ffmpeg, res, fc, parse, lerp_call >>

\* Lines 85-86: the worker saves its image
TaskSave(j) ==
    /\ pc = "par_frames"
    /\ tasks[j].pc = "rendered"
    /\ slots' = SaveFrame(slots, frame_offset + j, tasks[j].image[1])
    /\ tasks' = [tasks EXCEPT ![j].pc = "done"]
    /\ UNCHANGED << script, gpu, pc, k, frame_offset, num_frames, i,
                    frame_scene, image, gpu_state, total_frames, ffmpeg, res, fc, parse, lerp_call, renders >>

\* Lines 77-87: once a worker has panicked, an index no worker has taken up
\* may never be taken up
TaskAbandon(j) ==
    /\ pc = "par_frames"
    /\ tasks[j].pc = "ready"
    /\ \E h \in DOMAIN tasks : tasks[h].pc = "panicked"
    /\ tasks' = [tasks EXCEPT ![j].pc = "abandoned"]
    /\ UNCHANGED << script, gpu, pc, k, frame_offset, num_frames, i,
                    frame_scene, image, slots, gpu_state, total_frames,
                    ffmpeg, res, fc, parse, lerp_call, renders >>

\* Lines 77-87: for_each returns by unwinding when a worker has panicked
ParPanic ==
    /\ pc = "par_frames"
    /\ \A j \in DOMAIN tasks : tasks[j].pc \in { "done", "panicked", "abandoned" }
    /\ \E j \in DOMAIN tasks : tasks[j].pc = "panicked"
    /\ pc' = "panicked"
    /\ UNCHANGED << script, gpu, k, frame_offset, num_frames, i, frame_scene,
                    image, tasks, slots, gpu_state, total_frames, ffmpeg, res, fc, parse, lerp_call, renders >>

\* The frames of the current scene are all saved
SceneFinished ==
    \/ pc \in { "gpu_frame", "gpu_static_save" } /\ i = num_frames
    \/ /\ pc \in { "par_frames", "par_saves" }
       /\ \A j \in DOMAIN tasks : tasks[j].pc = "done"

\* Lines 112-114: the offset advances and the loop goes to the next scene
EndScene ==
    /\ SceneFinished
    /\ frame_offset' = NextOffset(frame_offset, num_frames)
    /\ k' = k + 1
    /\ pc' = IF k = Len(script.scenes) THEN "ffmpeg" ELSE "scene"
    /\ i' = 0
    /\ num_frames' = 0
    /\ frame_scene' = None
    /\ image' = None
    /\ tasks' = << >>
    /\ UNCHANGED << script, gpu, slots, gpu_state, total_frames, ffmpeg, res, fc, parse, lerp_call, renders >>

\* Lines 117-166: ffmpeg is run; it may not start at all (expect), exit
\* with success or exit with a failure, which is only printed
Ffmpeg ==
    /\ pc = "ffmpeg"
    /\ \E outcome \in { "success", "failure", "not started" } :
          IF outcome = "not started"
          THEN pc' = "panicked" /\ UNCHANGED ffmpeg
          ELSE /\ pc' = "cleanup"
               /\ ffmpeg' = Some([rate    |-> FRAME_RATE,
                                  size    |-> FfmpegSize(script.camera),
                                  success |-> outcome = "success"])
    /\ UNCHANGED << script, gpu, k, frame_offset, num_frames, i, frame_scene,
                    image, tasks, slots, gpu_state, total_frames, res, fc, parse, lerp_call, renders >>

\* Line 168: the temp directory is removed and animate_script returns
Cleanup ==
    /\ pc = "cleanup"
    /\ slots' = None
    /\ pc' = "done"
    /\ UNCHANGED << script, gpu, k, frame_offset, num_frames, i, frame_scene,
                    image, tasks, gpu_state, total_frames, ffmpeg, res, fc, parse, lerp_call, renders >>

(***************************************************************************)
(* Spec: runs of animate_script on scripts of up to MaxScenes scenes.      *)
(***************************************************************************)
MaxScenes == 2

\* A static scene of two frames
StillScene(name) ==
    Scene(name,
          << Object("circle", "dot", << Property("radius", Number(F64FromInt(5))) >>) >>,
          None, Some(DurationFromMillis(20)))

\* A static scene of no frame
BlankScene(name) ==
    Scene(name,
          << Object("circle", "dot", << Property("radius", Number(F64FromInt(7))) >>) >>,
          None, Some(DurationFromMillis(0)))

SquareItems ==
    << Object("square", "sq",
              << Property("size", Number(F64FromInt(0))),
                 Property("position", Tuple(F64FromInt(10), F64FromInt(20))) >>) >>

\* An animated scene of three frames, at 0, 1/60 and 2/60 seconds
MovingScene(name) ==
    Scene(name, SquareItems,
          Some(Timeline(<<
              Animation(DurationFromMillis(0), Some(DurationFromMillis(30)),
                        "sq", "size", Number(F64FromInt(50)), None),
              Animation(DurationFromMillis(20), None,
                        "sq", "position",
                        Tuple(F64FromInt(30), F64FromInt(40)), None) >>)),
          Some(DurationFromMillis(34)))

\* The animations of a timeline that is sound for SquareItems but for its
\* last animation, which starts after the last frame of a 20 ms scene
BrokenAnimations(target_object, property) ==
    << Animation(DurationFromMillis(0), Some(DurationFromMillis(30)),
                 "sq", "size", Number(F64FromInt(50)), None),
       Animation(DurationFromMillis(30), Some(DurationFromMillis(40)),
                 target_object, property, Number(F64FromInt(50)), None) >>

\* An animated scene of two frames whose timeline targets an object the
\* scene does not have
BrokenScene(name) ==
    Scene(name, SquareItems,
          Some(Timeline(BrokenAnimations("ghost", "size"))),
          Some(DurationFromMillis(20)))

\* An animated scene of two frames whose timeline targets a property its
\* object does not have
HollowScene(name) ==
    Scene(name, SquareItems,
          Some(Timeline(BrokenAnimations("sq", "fill"))),
          Some(DurationFromMillis(20)))

SceneKinds == { "still", "blank", "moving", "broken", "hollow" }

SceneNames == << "one", "two", "three", "four" >>

SceneOfKind(kind, n) ==
    CASE kind = "still"  -> StillScene(SceneNames[n])
      [] kind = "blank"  -> BlankScene(SceneNames[n])
      [] kind = "moving" -> MovingScene(SceneNames[n])
      [] kind = "broken" -> BrokenScene(SceneNames[n])
      [] kind = "hollow" -> HollowScene(SceneNames[n])

SceneSeqs ==
    UNION { { [n \in 1 .. m |-> SceneOfKind(kinds[n], n)] :
                kinds \in [1 .. m -> SceneKinds] } : m \in 0 .. MaxScenes }

Cameras ==
    { None,
      Some(Camera(<< Property("width", Number(F64FromInt(64))),
                     Property("height", Number(F64FromInt(48))) >>)) }

\* A frame left in temp_frames by an earlier run
StaleDir ==
    Some([x \in { 7 } |->
            [image |-> [renderer |-> "cpu", width |-> 1, height |-> 1, items |-> << >>],
             writes |-> 1]])

Init ==
    /\ script \in { [camera |-> c, scenes |-> ss] : c \in Cameras, ss \in SceneSeqs }
    /\ gpu \in BOOLEAN
    /\ pc = "start"
    /\ k = 0
    /\ frame_offset = 0
    /\ num_frames = 0
    /\ i = 0
    /\ frame_scene = None
    /\ image = None
    /\ tasks = << >>
    /\ slots \in { None, StaleDir }
    /\ gpu_state = None
    /\ total_frames = 0
    /\ ffmpeg = None
    /\ renders = NoCalls
    /\ res = ResIdle
    /\ fc = FcIdle
    /\ parse = ParseIdle
    /\ lerp_call = LerpIdle

Next ==
    \/ Setup
    \/ BeginScene
    \/ GpuResolve
    \/ GpuRenderBegin
    \/ GpuRenderEnd
    \/ GpuSave
    \/ GpuStaticSave
    \/ CpuStaticRender
    \/ \E j \in DOMAIN tasks : TaskSaveStatic(j)
    \/ \E j \in DOMAIN tasks : TaskResolve(j)
    \/ \E j \in DOMAIN tasks : TaskRender(j)
    \/ \E j \in DOMAIN tasks : TaskSave(j)
    \/ \E j \in DOMAIN tasks : TaskAbandon(j)
    \/ ParPanic
    \/ EndScene
    \/ Ffmpeg
    \/ Cleanup

Spec == Init /\ [][Next]_vars

(***************************************************************************)
(* SpecFrames: the frame count of one scene duration, as the parser can    *)
(* produce it (absent, or a whole number of milliseconds).                 *)
(***************************************************************************)
MaxDurationMs == 4200

FrameDurations ==
    { None } \cup { Some(DurationFromMillis(ms)) : ms \in 0 .. MaxDurationMs }

InitFrames ==
    /\ RunIdle
    /\ res = ResIdle
    /\ parse = ParseIdle
    /\ lerp_call = LerpIdle
    /\ fc \in { [phase |-> "given", duration |-> d, count |-> 0] :
                  d \in FrameDurations }

CountFrames ==
    /\ fc.phase = "given"
    /\ fc' = [fc EXCEPT !.phase = "counted", !.count = NumFrames(fc.duration)]
    /\ UNCHANGED << run_vars, res, parse, lerp_call >>

NextFrames == CountFrames

SpecFrames == InitFrames /\ [][NextFrames]_vars

\* The duration of fc in whole milliseconds
FcMillis ==
    LET d == SceneDuration(fc.duration)
    IN  d.secs * 1000 + d.nanos \div 1000000

\* C1: the number of frames of a scene is ceil(D * 60), D its duration in
\* seconds, 2 seconds when absent: the least n with n >= D * 60.
C1_FrameCountIsCeil ==
    fc.phase = "counted" =>
        /\ fc.count * 1000 >= FcMillis * FRAME_RATE
        /\ (fc.count - 1) * 1000 < FcMillis * FRAME_RATE

\* C27: every frame timestamp of a scene is before the scene's duration D,
\* for D > 0: frame 0 is at 0 and the last frame, n - 1 of the n frames the
\* scene gets, is at (n - 1)/60 < D.
C27_FramesBeforeDuration ==
    (fc.phase = "counted" /\ FcMillis > 0) =>
        /\ fc.count >= 1
        /\ FrameTime(0) = DurationFromSecs(0)
        /\ DurLt(FrameTime(fc.count - 1), SceneDuration(fc.duration))

(***************************************************************************)
(* SpecResolve: calls of apply_animations on one declared scene, for       *)
(* timelines of up to MaxAnims animations and a timestamp, the keys taken  *)
(* one at a time in any order.                                             *)
(***************************************************************************)
MaxAnims == 2

F(n) == F64FromInt(n)

\* The declared scene: an object with a Number and a Tuple property, which
\* the timelines target, and an object no timeline targets
DeclaredScene ==
    Scene("TestScene",
          << Object("square", "sq",
                    << Property("size", Number(F(0))),
                       Property("position", Tuple(F(10), F(20))) >>),
             Object("square", "other",
                    << Property("size", Number(F(7))) >>) >>,
          None, Some(DurationFromSecs(2)))

ResolveTargets == << << "sq", "size" >>, << "sq", "position" >> >>

AnimStarts == { DurationFromSecs(0), DurationFromSecs(1) }

\* instantaneous, or a range of zero, one or two seconds
AnimLengths == { None, Some(0), Some(1), Some(2) }

\* The first declared animation targets either pair, the others the first
TargetsAt(j) == IF j = 1 THEN { 1, 2 } ELSE { 1 }

AnimShapes(j) ==
    { [start |-> st, len |-> ln, target |-> ResolveTargets[tg]] :
        st \in AnimStarts, ln \in AnimLengths, tg \in TargetsAt(j) }

\* The destination of the j-th declared animation
ToNumbers == << 50, 100, 25, 75 >>

ToValue(j, target) ==
    IF target[2] = "size" THEN Number(F(ToNumbers[j]))
    ELSE Tuple(F(ToNumbers[j]), F(0))

Easings == { None, Some("ease_in") }

AnimationOf(shape, j, easing) ==
    Animation(shape.start,
              IF shape.len = None THEN None
              ELSE Some(DurationFromSecs(shape.start.secs + shape.len[1])),
              shape.target[1], shape.target[2],
              ToValue(j, shape.target), easing)

AnimShapeSeqs ==
    UNION { { sh \in [1 .. m -> UNION { AnimShapes(j) : j \in 1 .. m }] :
                \A j \in 1 .. m : sh[j] \in AnimShapes(j) } : m \in 0 .. MaxAnims }

\* Every timeline of at most MaxAnims animations, one easing throughout
ResolveTimelines ==
    { Timeline([j \in 1 .. Len(sh_ea[1]) |-> AnimationOf(sh_ea[1][j], j, sh_ea[2])]) :
        sh_ea \in AnimShapeSeqs \X Easings }

AtTimes ==
    { DurationFromMillis(0), DurationFromMillis(300), DurationFromMillis(1000),
      DurationFromMillis(1500), DurationFromMillis(2000) }

InitResolve ==
    /\ RunIdle
    /\ fc = FcIdle
    /\ parse = ParseIdle
    /\ lerp_call = LerpIdle
    /\ \E tl \in ResolveTimelines, at \in AtTimes :
          res = [phase |-> "declared", scene |-> DeclaredScene, timeline |-> tl,
                 at |-> at, times |-> AtTimes, frame |-> None, pending |-> {}]

\* The caller clones the declared scene and calls apply_animations on the
\* clone; the HashMap of animated pairs is built
ResolveCall ==
    /\ res.phase = "declared"
    /\ res' = [res EXCEPT !.phase = "running",
                          !.frame = Some(res.scene),
                          !.pending = AnimatedKeys(res.timeline)]
    /\ UNCHANGED << run_vars, fc, parse, lerp_call >>

\* One iteration of the loop over the keys
ResolveStep ==
    /\ res.phase = "running"
    /\ \E key \in res.pending :
          LET r == ResolveKey(res.frame[1], res.timeline, key, res.at)
          IN  res' = IF r.panicked
                     THEN [res EXCEPT !.phase = "panicked", !.pending = {}]
                     ELSE [res EXCEPT !.frame = Some(r.scene),
                                      !.pending = res.pending \ { key }]
    /\ UNCHANGED << run_vars, fc, parse, lerp_call >>

\* apply_animations returns
ResolveReturn ==
    /\ res.phase = "running"
    /\ res.pending = {}
    /\ res' = [res EXCEPT !.phase = "resolved"]
    /\ UNCHANGED << run_vars, fc, parse, lerp_call >>

\* The resolved copy is dropped; the declared scene is resolved again, at the
\* same timestamp or at another one
ResolveAgain ==
    /\ res.phase = "resolved"
    /\ \E at \in res.times :
          res' = [res EXCEPT !.phase = "declared", !.frame = None, !.at = at]
    /\ UNCHANGED << run_vars, fc, parse, lerp_call >>

NextResolve == ResolveCall \/ ResolveStep \/ ResolveReturn \/ ResolveAgain

SpecResolve == InitResolve /\ [][NextResolve]_vars

(***************************************************************************)
(* apply_animations called a second time on the scene it has resolved.     *)
(***************************************************************************)
\* The resolved scene is passed to apply_animations again, with the same
\* timeline and timestamp: res.scene is the scene passed, res.frame the
\* scene after the call
ResolveReapply ==
    /\ res.phase = "resolved"
    /\ \E o \in KeyOrders(res.timeline) :
          LET r == apply_animations(res.frame[1], res.timeline, res.at, o)
          IN  res' = IF r.panicked
                     THEN [res EXCEPT !.phase = "panicked"]
                     ELSE [res EXCEPT !.phase = "reapplied",
                                      !.scene = res.frame[1],
                                      !.frame = Some(r.scene)]
    /\ UNCHANGED << run_vars, fc, parse, lerp_call >>

NextTwice == NextResolve \/ ResolveReapply

SpecTwice == InitResolve /\ [][NextTwice]_vars

(***************************************************************************)
(* SpecSingle: calls of apply_animations for a timeline of one ranged      *)
(* animation, under every easing, at timestamps before, inside, one        *)
(* millisecond before the end of, at the end of and after its range.       *)
(***************************************************************************)
\* start and end in seconds; the parser also accepts an end that is not
\* after the start
SingleRanges ==
    { << 0, 0 >>, << 0, 1 >>, << 0, 2 >>, << 1, 1 >>, << 1, 2 >>, << 1, 3 >>,
      << 1, 0 >> }

\* The easings of apply_easing, an easing it does not know, and none
SingleEasings ==
    { None, Some("ease_in"), Some("ease_out"), Some("ease_in_out"),
      Some("bounce") }

SingleTo(target) ==
    IF target[2] = "size" THEN Number(F(100)) ELSE Tuple(F(100), F(0))

SingleTimelines ==
    { Timeline(<< Animation(DurationFromSecs(c[1][1]), Some(DurationFromSecs(c[1][2])),
                            ResolveTargets[c[2]][1], ResolveTargets[c[2]][2],
                            SingleTo(ResolveTargets[c[2]]), c[3]) >>) :
        c \in SingleRanges \X { 1, 2 } \X SingleEasings }

SingleTimes ==
    { DurationFromMillis(ms) :
        ms \in { 0, 250, 500, 750, 999, 1000, 1500, 1999, 2000, 2500, 3000 } }

InitSingle ==
    /\ RunIdle
    /\ fc = FcIdle
    /\ parse = ParseIdle
    /\ lerp_call = LerpIdle
    /\ \E tl \in SingleTimelines, at \in SingleTimes :
          res = [phase |-> "declared", scene |-> DeclaredScene, timeline |-> tl,
                 at |-> at, times |-> SingleTimes, frame |-> None, pending |-> {}]

SpecSingle == InitSingle /\ [][NextResolve]_vars

(***************************************************************************)
(* apply_animations on one or two animations of one pair, of every shape   *)
(* the parser accepts: instantaneous, or ranged with the end after, at or  *)
(* before the start.                                                       *)
(***************************************************************************)
PairShapes ==
    { [start |-> st, end |-> en] :
        st \in { 0, 1, 2 }, en \in { None } \cup { Some(x) : x \in { 0, 1, 2, 3 } } }

PairAnimation(shape, j) ==
    Animation(DurationFromSecs(shape.start),
              IF shape.end = None THEN None
              ELSE Some(DurationFromSecs(shape.end[1])),
              "sq", "size", Number(F(ToNumbers[j])), None)

PairTimelines ==
    { Timeline(<< PairAnimation(a, 1) >>) : a \in PairShapes }
    \cup { Timeline(<< PairAnimation(c[1], 1), PairAnimation(c[2], 2) >>) :
             c \in PairShapes \X PairShapes }

InitPair ==
    /\ RunIdle
    /\ fc = FcIdle
    /\ parse = ParseIdle
    /\ lerp_call = LerpIdle
    /\ \E tl \in PairTimelines, at \in SingleTimes :
          res = [phase |-> "declared", scene |-> DeclaredScene, timeline |-> tl,
                 at |-> at, times |-> SingleTimes, frame |-> None, pending |-> {}]

SpecPair == InitPair /\ [][NextResolve]_vars

(***************************************************************************)
(* apply_animations on the animations of two pairs: one animation of       *)
(* "sq".position, declared first, and one or two of "sq".size that start   *)
(* in the first two seconds.                                               *)
(***************************************************************************)
CrossTimelines ==
    { Timeline(<< Animation(DurationFromSecs(c[2]),
                            IF c[2] = 0 THEN Some(DurationFromSecs(2)) ELSE None,
                            "sq", "position", Tuple(F(30), F(40)), None) >>
               \o c[1].animations) :
        c \in { tl \in PairTimelines :
                   \A j \in DOMAIN tl.animations : tl.animations[j].start.secs <= 1 }
              \X { 0, 1 } }

InitCross ==
    /\ RunIdle
    /\ fc = FcIdle
    /\ parse = ParseIdle
    /\ lerp_call = LerpIdle
    /\ \E tl \in CrossTimelines, at \in AtTimes :
          res = [phase |-> "declared", scene |-> DeclaredScene, timeline |-> tl,
                 at |-> at, times |-> AtTimes, frame |-> None, pending |-> {}]

SpecCross == InitCross /\ [][NextResolve]_vars

(***************************************************************************)
(* apply_animations on one ranged animation whose `to` is of the kind of   *)
(* the declared value, or of another kind, or a String.                    *)
(***************************************************************************)
MixedScene ==
    Scene("TestScene",
          << Object("square", "sq",
                    << Property("size", Number(F64Div(F(3), F(2)))),
                       Property("label", String("a")),
                       Property("fill", Color(<< "#", "0", "0", "0", "0", "0", "0" >>)),
                       Property("position", Tuple(F(10), F(20))) >>) >>,
          None, Some(DurationFromSecs(2)))

\* Property and `to`: 3/2 to 1/10, String to String, Number to Tuple, Color
\* to String, Tuple to Number
MixedTargets ==
    { << "size", Number(F64Div(F(1), F(10))) >>,
      << "label", String("b") >>,
      << "size", Tuple(F(1), F(2)) >>,
      << "fill", String("red") >>,
      << "position", Number(F(5)) >> }

MixedTimelines ==
    { Timeline(<< Animation(DurationFromSecs(c[1][1]), Some(DurationFromSecs(c[1][2])),
                            "sq", c[2][1], c[2][2], c[3]) >>) :
        c \in SingleRanges \X MixedTargets \X { None, Some("ease_in"), Some("bounce") } }

InitMixed ==
    /\ RunIdle
    /\ fc = FcIdle
    /\ parse = ParseIdle
    /\ lerp_call = LerpIdle
    /\ \E tl \in MixedTimelines, at \in SingleTimes :
          res = [phase |-> "declared", scene |-> MixedScene, timeline |-> tl,
                 at |-> at, times |-> SingleTimes, frame |-> None, pending |-> {}]

SpecMixed == InitMixed /\ [][NextResolve]_vars

(***************************************************************************)
(* parse_str from the linking of the timelines on, and main, which hands   *)
(* the parsed script to animate_script.                                    *)
(***************************************************************************)
\* parser::ParsedTimeline
ParsedTimeline(scene_name, animations) ==
    [scene_name |-> scene_name, animations |-> animations]

\* Mutant of LinkTimeline: the animations are added to the timeline the
\* scene already has
LinkMerging(scenes, temp_timeline) ==
    LET n == FindByName(scenes, temp_timeline.scene_name)
    IN  IF n = 0
        THEN [scenes |-> scenes, warning |-> Some(temp_timeline.scene_name)]
        ELSE [scenes  |-> [scenes EXCEPT ![n].timeline =
                              IF @ = None
                              THEN Some(Timeline(temp_timeline.animations))
                              ELSE Some(Timeline(@[1].animations
                                                 \o temp_timeline.animations))],
              warning |-> None]

\* Mutant of LinkTimeline: a timeline that names no scene goes to the first
\* scene
LinkOrFirst(scenes, temp_timeline) ==
    LET n == FindByName(scenes, temp_timeline.scene_name)
        h == IF n = 0 /\ scenes # << >> THEN 1 ELSE n
    IN  IF h = 0
        THEN [scenes |-> scenes, warning |-> Some(temp_timeline.scene_name)]
        ELSE [scenes  |-> [scenes EXCEPT ![h].timeline =
                              Some(Timeline(temp_timeline.animations))],
              warning |-> None]

\* One iteration of "Link timelines to scenes": the first scene of that
\* name gets the timeline, or a warning is printed
LinkTimeline(scenes, temp_timeline) ==
    LET n == FindByName(scenes, temp_timeline.scene_name)
    IN  IF n = 0
        THEN [scenes |-> scenes, warning |-> Some(temp_timeline.scene_name)]
        ELSE [scenes  |-> [scenes EXCEPT ![n].timeline =
                              Some(Timeline(temp_timeline.animations))],
              warning |-> None]

\* parse_scene: the scene as declared, without a timeline; a file may
\* declare two scenes of one name
ParsedScene(name) ==
    IF name = "two" THEN StillScene(name)
    ELSE Scene(name, SquareItems, None, Some(DurationFromMillis(34)))

ParsedSceneNames == { "one", "two" }

ParsedSceneSeqs ==
    UNION { { [n \in 1 .. m |-> ParsedScene(c[n])] :
                c \in [1 .. m -> ParsedSceneNames] } : m \in 0 .. MaxScenes }

MaxTimelines == 2

\* The timelines of the file name a declared scene or one that is not there
TimelineNames == { "one", "two", "nowhere" }

\* The animations of the n-th timeline block of the file: no two blocks
\* declare the same
ParsedAnimations(n) ==
    IF n = 1 THEN MovingScene("one").timeline[1].animations
    ELSE << Animation(DurationFromMillis(10), None, "sq", "size",
                      Number(F64FromInt(n)), None) >>

ParsedTimelineSeqs ==
    UNION { { [n \in 1 .. m |-> ParsedTimeline(c[n], ParsedAnimations(n))] :
                c \in [1 .. m -> TimelineNames] } : m \in 0 .. MaxTimelines }

\* The state after the loop over the pairs of the file: the scenes and the
\* timelines are collected, main was started with or without --gpu
InitMain ==
    /\ script = [camera |-> None, scenes |-> << >>]
    /\ gpu \in BOOLEAN
    /\ pc = "idle"
    /\ k = 0
    /\ frame_offset = 0
    /\ num_frames = 0
    /\ i = 0
    /\ frame_scene = None
    /\ image = None
    /\ tasks = << >>
    /\ slots = None
    /\ gpu_state = None
    /\ total_frames = 0
    /\ ffmpeg = None
    /\ renders = NoCalls
    /\ res = ResIdle
    /\ fc = FcIdle
    /\ lerp_call = LerpIdle
    /\ \E ss \in ParsedSceneSeqs, ts \in ParsedTimelineSeqs :
          parse = [phase |-> "linking", camera |-> None, declared |-> ss,
                   scenes |-> ss, temp_timelines |-> ts, next |-> 1,
                   warnings |-> << >>]

\* Lines 37-52: one temp_timeline is linked or warned about
ParseLink ==
    /\ parse.phase = "linking"
    /\ parse.next <= Len(parse.temp_timelines)
    /\ LET r == LinkTimeline(parse.scenes, parse.temp_timelines[parse.next])
       IN  parse' = [parse EXCEPT
                        !.scenes = r.scenes,
                        !.next = @ + 1,
                        !.warnings = IF r.warning = None THEN @
                                     ELSE Append(@, r.warning[1])]
    /\ UNCHANGED << run_vars, res, fc, lerp_call >>

\* Line 54 and main.rs 26-30: parse_str returns Ok(script) and main calls
\* animate_script(&script, .., args.gpu)
ParseReturn ==
    /\ parse.phase = "linking"
    /\ parse.next > Len(parse.temp_timelines)
    /\ parse' = [parse EXCEPT !.phase = "ok"]
    /\ script' = [camera |-> parse.camera, scenes |-> parse.scenes]
    /\ pc' = "start"
    /\ UNCHANGED << gpu, k, frame_offset, num_frames, i, frame_scene, image,
                    tasks, slots, gpu_state, total_frames, ffmpeg, renders,
                    res, fc, lerp_call >>

NextMain == ParseLink \/ ParseReturn \/ Next

SpecMain == InitMain /\ [][NextMain]_vars

(***************************************************************************)
(* One call of lerp on values a script can declare.                        *)
(***************************************************************************)
\* Color strings: well-formed lowercase and uppercase ones, and one that is
\* not six digits long
LerpColors ==
    { << "#", "0", "0", "0", "0", "0", "0" >>,
      << "#", "f", "f", "f", "f", "f", "f" >>,
      << "#", "F", "F", "8", "0", "0", "1" >>,
      << "#", "1", "0", "c", "8", "f", "e" >>,
      << "#", "f", "f", "f" >> }

\* Number, Tuple and Color values; 1/10 has no exact f64
LerpValues ==
    LET tenth == F64Div(F64FromInt(1), F64FromInt(10))
    IN  { Number(x) : x \in { F64FromInt(0), F64FromInt(100), tenth,
                              F64FromInt(-8), F64Div(F64FromInt(3), F64FromInt(2)) } }
        \cup { Tuple(F64FromInt(0), F64FromInt(0)),
               Tuple(F64FromInt(100), tenth),
               Tuple(tenth, F64FromInt(-8)),
               Tuple(F64FromInt(40), F64FromInt(30)) }
        \cup { Color(hex) : hex \in LerpColors }

\* Factors: 0, 1/10, 1/4, 1/3, 1/2, 3/4 and 1
LerpFactors ==
    { F64FromInt(0), F64FromInt(1) }
    \cup { F64Div(F64FromInt(n[1]), F64FromInt(n[2])) :
             n \in { << 1, 10 >>, << 1, 4 >>, << 1, 3 >>, << 1, 2 >>, << 3, 4 >> } }

InitLerp ==
    /\ RunIdle
    /\ res = ResIdle
    /\ fc = FcIdle
    /\ parse = ParseIdle
    /\ \E start \in LerpValues, end \in LerpValues, factor \in LerpFactors :
          lerp_call = [phase |-> "called", start |-> start, end |-> end,
                       factor |-> factor, result |-> None]

\* lerp returns
LerpReturn ==
    /\ lerp_call.phase = "called"
    /\ lerp_call' = [lerp_call EXCEPT
                        !.phase = "returned",
                        !.result = Some(lerp(lerp_call.start, lerp_call.end,
                                             lerp_call.factor))]
    /\ UNCHANGED << run_vars, res, fc, parse >>

NextLerp == LerpReturn

SpecLerp == InitLerp /\ [][NextLerp]_vars

(***************************************************************************)
(* Properties of apply_animations (SpecResolve).                           *)
(***************************************************************************)
\* The indices of the timeline's animations that target key
AnimsOn(key) ==
    { j \in 1 .. Len(res.timeline.animations) :
        IsRelevant(res.timeline.animations[j], key) }

Anim(j) == res.timeline.animations[j]

\* The value of the pair in the resolved copy and in the declared scene
ResolvedPair(key) == InitialValue(res.frame[1], key)[1]

DeclaredPair(key) == InitialValue(res.scene, key)[1]

\* h comes before j in ascending start order, ties in declaration order
SortsBefore(h, j) ==
    \/ DurLt(Anim(h).start, Anim(j).start)
    \/ Anim(h).start = Anim(j).start /\ h < j

\* start <= at < end
ActiveAt(j, at) ==
    /\ DurGe(at, Anim(j).start)
    /\ Anim(j).end # None
    /\ DurLt(at, Anim(j).end[1])

\* C6: resolution has no hidden state: whenever a call has returned, in
\* whatever order it took the pairs and however many calls came before,
\* the resolved scene is the one every key order computes from the
\* declared scene, timeline and timestamp.
C6_ResolutionIsAFunction ==
    res.phase = "resolved" =>
        \A o \in KeyOrders(res.timeline) :
            LET r == apply_animations(res.scene, res.timeline, res.at, o)
            IN  ~r.panicked /\ r.scene = res.frame[1]

C6_Witness ==
    /\ res.phase = "resolved"
    /\ Cardinality(AnimatedKeys(res.timeline)) = 2
    /\ \A key \in AnimatedKeys(res.timeline) : ResolvedPair(key) # DeclaredPair(key)

\* C7: pre-start invariance: a pair whose animations all start after the
\* timestamp resolves to its declared base value.
C7_PreStartInvariance ==
    res.phase = "resolved" =>
        \A key \in AnimatedKeys(res.timeline) :
            (\A j \in AnimsOn(key) : DurLt(res.at, Anim(j).start))
                => ResolvedPair(key) = DeclaredPair(key)

C7_Witness ==
    /\ res.phase = "resolved"
    /\ \E key \in AnimatedKeys(res.timeline) :
          /\ \A j \in AnimsOn(key) : DurLt(res.at, Anim(j).start)
          /\ \E j \in AnimsOn(key) : Anim(j).to # DeclaredPair(key)
          /\ ResolvedPair(key) = DeclaredPair(key)

\* C8: instantaneous snap: a pair targeted by a single animation with no end
\* and start T resolves to the declared base value for at < T and to the
\* animation's `to` for at >= T, at = T included.
C8_InstantSnap ==
    res.phase = "resolved" =>
        \A key \in AnimatedKeys(res.timeline) :
            \A j \in AnimsOn(key) :
                (AnimsOn(key) = { j } /\ Anim(j).end = None) =>
                    ResolvedPair(key) =
                        IF DurLt(res.at, Anim(j).start) THEN DeclaredPair(key)
                        ELSE Anim(j).to

C8_Witness ==
    /\ res.phase = "resolved"
    /\ \E key \in AnimatedKeys(res.timeline) :
          \E j \in AnimsOn(key) :
              /\ AnimsOn(key) = { j }
              /\ Anim(j).end = None
              /\ Anim(j).start = res.at
              /\ ResolvedPair(key) = Anim(j).to
              /\ Anim(j).to # DeclaredPair(key)

\* The animations on key all have an end and no two overlap, a range being
\* the timestamps from its start up to its end, the end excluded
AllRangedNonOverlapping(key) ==
    /\ \A j \in AnimsOn(key) : Anim(j).end # None
    /\ \A h, j \in AnimsOn(key) :
          h # j => \/ DurGe(Anim(j).start, Anim(h).end[1])
                   \/ DurGe(Anim(h).start, Anim(j).end[1])

\* The animations on key are ranged (end after start) and no two overlap
RangedNonOverlapping(key) ==
    /\ \A j \in AnimsOn(key) :
          Anim(j).end # None /\ DurLt(Anim(j).start, Anim(j).end[1])
    /\ \A h, j \in AnimsOn(key) :
          h # j => \/ DurGe(Anim(j).start, Anim(h).end[1])
                   \/ DurGe(Anim(h).start, Anim(j).end[1])

\* The animations on key that have ended at or before the start of j
FinishedBefore(key, j) ==
    { h \in AnimsOn(key) : h # j /\ DurGe(Anim(j).start, Anim(h).end[1]) }

\* The value j interpolates from when the animations on key form a chain:
\* the `to` of the one that finished last, or the declared base value
ChainStart(key, j) ==
    IF FinishedBefore(key, j) = {} THEN DeclaredPair(key)
    ELSE Anim(CHOOSE h \in FinishedBefore(key, j) :
                \A g \in FinishedBefore(key, j) :
                    DurGe(Anim(h).end[1], Anim(g).end[1])).to

\* A:[0s,1s] to 50 and B:[1s,2s] to 100 on the Number pair of base 0
IsChainExample ==
    /\ Len(res.timeline.animations) = 2
    /\ Anim(1) = Animation(DurationFromSecs(0), Some(DurationFromSecs(1)),
                           "sq", "size", Number(F(50)), None)
    /\ Anim(2) = Animation(DurationFromSecs(1), Some(DurationFromSecs(2)),
                           "sq", "size", Number(F(100)), None)
    /\ res.at = DurationFromMillis(1500)

\* C9 as stated: chained composition for any animations on a pair that are
\* ranged and pairwise non-overlapping, a range of length zero included.
C9_ChainedAnyRange ==
    res.phase = "resolved" =>
        \A key \in AnimatedKeys(res.timeline) :
            AllRangedNonOverlapping(key) =>
                \A j \in AnimsOn(key) :
                    ActiveAt(j, res.at) =>
                        ResolvedPair(key) =
                            lerp(ChainStart(key, j), Anim(j).to, Factor(Anim(j), res.at))

\* C9: chained composition: when the animations on a pair are ranged, each
\* with its end after its start, and pairwise non-overlapping, the one
\* active at `at` interpolates from the `to` of the last animation that
\* finished before it (from the declared base value if none did);
\* A:[0s,1s] to 50, B:[1s,2s] to 100 from base 0 resolve to 75 at 1.5 s.
C9_ChainedComposition ==
    res.phase = "resolved" =>
        /\ \A key \in AnimatedKeys(res.timeline) :
              RangedNonOverlapping(key) =>
                  \A j \in AnimsOn(key) :
                      ActiveAt(j, res.at) =>
                          ResolvedPair(key) =
                              lerp(ChainStart(key, j), Anim(j).to, Factor(Anim(j), res.at))
        /\ IsChainExample => ResolvedPair(<< "sq", "size" >>) = Number(F(75))

C9_Witness ==
    /\ res.phase = "resolved"
    /\ IsChainExample
    /\ ResolvedPair(<< "sq", "size" >>) = Number(F(75))

\* The first animation on key, in start order, that is active at `at`
IsFirstActive(key, j) ==
    /\ j \in AnimsOn(key)
    /\ ActiveAt(j, res.at)
    /\ \A h \in AnimsOn(key) : SortsBefore(h, j) => ~ActiveAt(h, res.at)

\* The value accumulated before j: the `to` of its predecessor in start
\* order, or the declared base value
AccumulatedBefore(key, j) ==
    LET before == { h \in AnimsOn(key) : SortsBefore(h, j) }
    IN  IF before = {} THEN DeclaredPair(key)
        ELSE Anim(CHOOSE h \in before :
                    \A g \in before : g = h \/ SortsBefore(g, h)).to

\* C10: an active animation always wins: the first animation A, in start
\* order, with A.start <= at < A.end fixes the resolved value as the
\* interpolation from the value accumulated before A to A.to; no animation
\* sorted after A changes it, not even one that has started.
C10_ActiveAnimationWins ==
    res.phase = "resolved" =>
        \A key \in AnimatedKeys(res.timeline) :
            \A j \in AnimsOn(key) :
                IsFirstActive(key, j) =>
                    ResolvedPair(key) =
                        lerp(AccumulatedBefore(key, j), Anim(j).to,
                             Factor(Anim(j), res.at))

C10_Witness ==
    /\ res.phase = "resolved"
    /\ \E key \in AnimatedKeys(res.timeline) :
          \E j, h \in AnimsOn(key) :
              /\ IsFirstActive(key, j)
              /\ SortsBefore(j, h)
              /\ DurLt(Anim(j).start, Anim(h).start)
              /\ DurGe(res.at, Anim(h).start)
              /\ Anim(h).end = None
              /\ ResolvedPair(key) # Anim(h).to

\* C15: resolution changes only animated pairs: in the resolved copy, while
\* apply_animations runs and when it has returned, the scene name, the
\* duration, the timeline field, the objects with their names and type tags
\* and the property names of every object are those of the declared scene,
\* and every property no animation targets has its declared value.
C15_OnlyAnimatedPairsChange ==
    res.phase \in { "running", "resolved" } =>
        LET frame == res.frame[1]
        IN  /\ frame.name = res.scene.name
            /\ frame.duration = res.scene.duration
            /\ frame.timeline = res.scene.timeline
            /\ Len(frame.items) = Len(res.scene.items)
            /\ \A o \in 1 .. Len(res.scene.items) :
                  /\ frame.items[o].name = res.scene.items[o].name
                  /\ frame.items[o].type = res.scene.items[o].type
                  /\ Len(frame.items[o].properties)
                        = Len(res.scene.items[o].properties)
                  /\ \A p \in 1 .. Len(res.scene.items[o].properties) :
                        /\ frame.items[o].properties[p].name
                              = res.scene.items[o].properties[p].name
                        /\ << res.scene.items[o].name,
                              res.scene.items[o].properties[p].name >>
                                 \notin AnimatedKeys(res.timeline)
                              => frame.items[o].properties[p].value
                                    = res.scene.items[o].properties[p].value

C15_Witness ==
    /\ res.phase = "resolved"
    /\ AnimatedKeys(res.timeline) = { << "sq", "size" >> }
    /\ ResolvedPair(<< "sq", "size" >>) # DeclaredPair(<< "sq", "size" >>)
    /\ ResolvedPair(<< "sq", "position" >>) = DeclaredPair(<< "sq", "position" >>)
    /\ ResolvedPair(<< "other", "size" >>) = Number(F(7))

\* The indices of the animations on key, ascending by start, animations of
\* equal start in declaration order
OrderedOn(key) ==
    LET n == Cardinality(AnimsOn(key))
    IN  CHOOSE o \in [1 .. n -> AnimsOn(key)] :
            \A a, b \in 1 .. n : a < b => SortsBefore(o[a], o[b])

\* Every declaration order of the animations of the timeline
DeclarationOrders ==
    LET n == Len(res.timeline.animations)
    IN  { [j \in 1 .. n |-> res.timeline.animations[f[j]]] :
            f \in { g \in [1 .. n -> 1 .. n] :
                      \A a, b \in 1 .. n : a # b => g[a] # g[b] } }

DistinctStarts(key) ==
    \A h, j \in AnimsOn(key) : h # j => Anim(h).start # Anim(j).start

\* C16: the animations of a pair are applied in ascending start order, ties
\* in declaration order: the resolved value is the walk over them in that
\* order; when their starts are distinct every declaration order of the
\* timeline resolves the pair to the same value; and two instantaneous
\* animations of one start resolve, from that start on, to the `to` of the
\* one declared later.
C16_StartOrderStable ==
    res.phase = "resolved" =>
        \A key \in AnimatedKeys(res.timeline) :
            /\ ResolvedPair(key)
                  = WalkAnimations([j \in 1 .. Cardinality(AnimsOn(key)) |->
                                        Anim(OrderedOn(key)[j])],
                                   1, DeclaredPair(key), res.at)
            /\ DistinctStarts(key) =>
                  \A anims \in DeclarationOrders :
                      ResolvedValue(Timeline(anims), key, DeclaredPair(key), res.at)
                          = ResolvedPair(key)
            /\ \A h, j \in AnimsOn(key) :
                  ( /\ AnimsOn(key) = { h, j }
                    /\ h < j
                    /\ Anim(h).end = None
                    /\ Anim(j).end = None
                    /\ Anim(h).start = Anim(j).start
                    /\ DurGe(res.at, Anim(j).start) )
                  => ResolvedPair(key) = Anim(j).to

\* Declared in descending start order, both started: declaration order
\* would end on the other animation's `to`
C16_Witness ==
    /\ res.phase = "resolved"
    /\ AnimsOn(<< "sq", "size" >>) = { 1, 2 }
    /\ DurLt(Anim(2).start, Anim(1).start)
    /\ Anim(1).end = None
    /\ Anim(2).end = None
    /\ DurGe(res.at, Anim(1).start)
    /\ ResolvedPair(<< "sq", "size" >>) = Anim(1).to
    /\ Anim(1).to # Anim(2).to

(***************************************************************************)
(* Properties of a second application (SpecTwice).                         *)
(***************************************************************************)
\* start < at < end
StrictlyInside(j, at) ==
    /\ DurLt(Anim(j).start, at)
    /\ Anim(j).end # None
    /\ DurLt(at, Anim(j).end[1])

SingleAnim == res.timeline.animations[1]

SingleKey == << SingleAnim.target_object, SingleAnim.property >>

\* (at - start) / (end - start) in f64 seconds, then the easing, if any
EasedFactor(anim, at) ==
    LET raw == F64Div(AsSecsF64(DurSub(at, anim.start)),
                      AsSecsF64(DurSub(anim.end[1], anim.start)))
    IN  IF anim.easing = None THEN raw ELSE apply_easing(raw, anim.easing[1])

F64Abs(x) == [x EXCEPT !.s = 0]

F64Le(x, y) == ~F64Lt(y, x)

\* The f64 components of a Number or a Tuple
Comps(value) ==
    IF value.k = "Number" THEN << value.n >> ELSE << value.x, value.y >>

\* |to - v| in component c
Gap(to, v, c) == F64Abs(F64Sub(Comps(to)[c], Comps(v)[c]))

\* What the pair of the one animation resolves to at timestamp at
SingleValueAt(at) ==
    ResolvedValue(res.timeline, SingleKey, DeclaredPair(SingleKey), at)

\* The value at the start, inside the range, towards its end and from its
\* end on
BoundaryHolds ==
    LET anim == SingleAnim
        base == DeclaredPair(SingleKey)
        v    == ResolvedPair(SingleKey)
    IN  /\ res.at = anim.start => v = base
        /\ (DurGe(res.at, anim.start) /\ DurLt(res.at, anim.end[1])) =>
              /\ v = lerp(base, anim.to, EasedFactor(anim, res.at))
              \* later in the range the value is no farther from `to`
              /\ \A t \in res.times :
                    (DurGe(t, res.at) /\ DurLt(t, anim.end[1])) =>
                        \A c \in DOMAIN Comps(anim.to) :
                            F64Le(Gap(anim.to, SingleValueAt(t), c),
                                  Gap(anim.to, v, c))
              \* one millisecond before the end it is within 1/256 of the
              \* way from the base
              /\ DurSub(anim.end[1], res.at) = DurationFromMillis(1) =>
                    \A c \in DOMAIN Comps(anim.to) :
                        F64Le(F64Mul(F(256), Gap(anim.to, v, c)),
                              Gap(anim.to, base, c))
        /\ DurGe(res.at, anim.end[1]) => v = anim.to

\* C17 as stated, for every range the parser accepts: at the start the
\* pre-animation value, inside the range the eased interpolation, which
\* approaches `to`, and exactly `to` from the end on.
C17_BoundaryAnyRange == res.phase = "resolved" => BoundaryHolds

\* C17: boundary continuity of the one ranged animation of a Number or
\* Tuple pair whose end is after its start: at the start the pre-animation
\* value, inside [start, end) the interpolation at the eased factor of
\* (at - start) / (end - start), no farther from `to` the later the
\* timestamp and close to it one millisecond before the end, and exactly
\* `to` at the end and after it.
C17_BoundaryContinuity ==
    (res.phase = "resolved" /\ DurLt(SingleAnim.start, SingleAnim.end[1]))
        => BoundaryHolds

C17_Witness ==
    /\ res.phase = "resolved"
    /\ SingleKey = << "sq", "position" >>
    /\ SingleAnim.start = DurationFromSecs(1)
    /\ SingleAnim.end = Some(DurationFromSecs(2))
    /\ SingleAnim.easing = Some("ease_in_out")
    /\ res.at = DurationFromMillis(1999)
    /\ ResolvedPair(SingleKey) # SingleAnim.to
    /\ F64Lt(F(99), ResolvedPair(SingleKey).x)
    /\ F64Lt(ResolvedPair(SingleKey).y, F(1))

\* The easing curves as the contract gives them, t an f64 and easing an
\* optional name
EasingCurve(t, easing) ==
    IF easing = Some("ease_in") THEN F64Mul(t, t)
    ELSE IF easing = Some("ease_out") THEN F64Mul(t, F64Sub(F(2), t))
    ELSE IF easing = Some("ease_in_out")
    THEN (IF F64Lt(t, F64Half)
          THEN F64Mul(F64Mul(F(2), t), t)
          ELSE F64Add(F(-1), F64Mul(F64Sub(F(4), F64Mul(F(2), t)), t)))
    ELSE t

\* 1/4 and 3/4
F64Quarter == F64Div(F(1), F(4))

F64ThreeQuarters == F64Div(F(3), F(4))

\* C18: easing reshapes the factor once, before the interpolation: inside
\* its range the animation resolves to lerp(base, to, curve(raw factor)) for
\* the curve of its easing (t for an unknown or absent one); every curve
\* maps 0 to 0 and 1 to 1, ease_in(0.5) = 0.25, ease_out(0.5) = 0.75,
\* ease_in_out(0.5) = 0.5; a 0-to-100 animation over [0s, 1s] resolves at
\* 0.5 s to 25, 75 and 50.
C18_EasingOnce ==
    res.phase = "resolved" =>
        LET anim == SingleAnim
            base == DeclaredPair(SingleKey)
            v    == ResolvedPair(SingleKey)
            raw  == F64Div(AsSecsF64(DurSub(res.at, anim.start)),
                           AsSecsF64(DurSub(anim.end[1], anim.start)))
        IN  /\ (DurGe(res.at, anim.start) /\ DurLt(res.at, anim.end[1])) =>
                  v = lerp(base, anim.to, EasingCurve(raw, anim.easing))
            /\ anim.easing # None =>
                  /\ apply_easing(F(0), anim.easing[1]) = F(0)
                  /\ apply_easing(F(1), anim.easing[1]) = F(1)
                  /\ apply_easing(F64Half, anim.easing[1])
                        = CASE anim.easing[1] = "ease_in" -> F64Quarter
                            [] anim.easing[1] = "ease_out" -> F64ThreeQuarters
                            [] OTHER -> F64Half
            /\ ( /\ SingleKey = << "sq", "size" >>
                 /\ anim.start = DurationFromSecs(0)
                 /\ anim.end = Some(DurationFromSecs(1))
                 /\ res.at = DurationFromMillis(500) )
               => v = CASE anim.easing = Some("ease_in") -> Number(F(25))
                        [] anim.easing = Some("ease_out") -> Number(F(75))
                        [] OTHER -> Number(F(50))

C18_Witness ==
    /\ res.phase = "resolved"
    /\ SingleKey = << "sq", "size" >>
    /\ DeclaredPair(SingleKey) = Number(F(0))
    /\ SingleAnim.to = Number(F(100))
    /\ SingleAnim.start = DurationFromSecs(0)
    /\ SingleAnim.end = Some(DurationFromSecs(1))
    /\ SingleAnim.easing = Some("ease_out")
    /\ res.at = DurationFromMillis(500)
    /\ ResolvedPair(SingleKey) = Number(F(75))

(***************************************************************************)
(* Properties of one ranged animation on mixed values (SpecMixed).         *)
(***************************************************************************)
\* lerp interpolates Number with Number, Tuple with Tuple, Color with Color
Interpolable(start, end) ==
    start.k = end.k /\ start.k \in { "Number", "Tuple", "Color" }

\* C21: for a pairing of start and end that is not Number/Number,
\* Tuple/Tuple or Color/Color, lerp returns the end value for every factor,
\* and a ranged animation on such a pair resolves to `to` from its start on
\* (and does not panic).
C21_MismatchReturnsEnd ==
    LET anim == SingleAnim
        base == InitialValue(res.scene, SingleKey)[1]
    IN  (res.phase # "idle" /\ ~Interpolable(base, anim.to)) =>
            /\ \A factor \in LerpFactors : lerp(base, anim.to, factor) = anim.to
            /\ res.phase # "panicked"
            /\ (res.phase = "resolved" /\ DurGe(res.at, anim.start)) =>
                  ResolvedPair(SingleKey) = anim.to

C21_Witness ==
    /\ res.phase = "resolved"
    /\ SingleKey = << "sq", "label" >>
    /\ DeclaredPair(SingleKey) = String("a")
    /\ SingleAnim.start = DurationFromSecs(0)
    /\ SingleAnim.end = Some(DurationFromSecs(2))
    /\ res.at = DurationFromMillis(500)
    /\ ResolvedPair(SingleKey) = String("b")

\* The factor 1.0 after the easing of the animation, if any
EasedOne(anim) ==
    IF anim.easing = None THEN F(1) ELSE apply_easing(F(1), anim.easing[1])

\* Inside its range the one animation resolves its pair to the interpolation
\* at the eased factor of (at - start) / (end - start)
InsideRangeHolds ==
    (DurGe(res.at, SingleAnim.start) /\ DurLt(res.at, SingleAnim.end[1])) =>
        ResolvedPair(SingleKey)
            = lerp(DeclaredPair(SingleKey), SingleAnim.to,
                   EasedFactor(SingleAnim, res.at))

\* end == start, and the animation has started
ZeroRangeStarted ==
    /\ SingleAnim.end = Some(SingleAnim.start)
    /\ DurGe(res.at, SingleAnim.start)

SnapTimeline ==
    Timeline(<< [SingleAnim EXCEPT !.end = None] >>)

\* C25: a factor is computed only for start <= at < end, so the end is then
\* after the start and the un-eased factor is in [0, 1); a ranged animation
\* whose end is at or before its start never interpolates and subtracts no
\* later time from an earlier one: it resolves like the instantaneous
\* animation that snaps to `to` at its start.
C25_InterpolationGuard ==
    /\ res.phase # "panicked"
    /\ res.phase = "resolved" =>
          LET anim == SingleAnim
              raw  == F64Div(AsSecsF64(DurSub(res.at, anim.start)),
                             AsSecsF64(DurSub(anim.end[1], anim.start)))
          IN  /\ (DurGe(res.at, anim.start) /\ DurLt(res.at, anim.end[1])) =>
                    /\ DurLt(anim.start, anim.end[1])
                    /\ F64Le(F(0), raw)
                    /\ F64Lt(raw, F(1))
                    /\ ResolvedPair(SingleKey)
                          = lerp(DeclaredPair(SingleKey), anim.to,
                                 IF anim.easing = None THEN raw
                                 ELSE apply_easing(raw, anim.easing[1]))
              /\ DurGe(anim.start, anim.end[1]) =>
                    /\ ResolvedPair(SingleKey)
                          = ResolvedValue(SnapTimeline, SingleKey,
                                          DeclaredPair(SingleKey), res.at)
                    /\ ResolvedPair(SingleKey)
                          = IF DurGe(res.at, anim.start) THEN anim.to
                            ELSE DeclaredPair(SingleKey)

C25_Witness ==
    /\ res.phase = "resolved"
    /\ SingleKey = << "sq", "size" >>
    /\ SingleAnim.to = Number(F64Div(F(1), F(10)))
    /\ SingleAnim.start = DurationFromSecs(1)
    /\ SingleAnim.end = Some(DurationFromSecs(0))
    /\ res.at = DurationFromMillis(1500)
    /\ ResolvedPair(SingleKey) = SingleAnim.to

(***************************************************************************)
(* Properties of the animations of one pair (SpecPair).                    *)
(***************************************************************************)
\* The animation on key that is last in stable start order
LastOn(key) ==
    CHOOSE j \in AnimsOn(key) : \A h \in AnimsOn(key) : h = j \/ SortsBefore(h, j)

\* at >= start for an instantaneous animation, at >= end for a ranged one
PastEnd(j, at) ==
    IF Anim(j).end = None THEN DurGe(at, Anim(j).start)
    ELSE DurGe(at, Anim(j).end[1])

\* C26 as stated: once every animation on a pair has finished (at >= start
\* for an instantaneous one, at >= end for a ranged one) the pair resolves
\* to the `to` of the animation last in stable start order.
C26_FinishedAnyRange ==
    res.phase = "resolved" =>
        \A key \in AnimatedKeys(res.timeline) :
            (\A j \in AnimsOn(key) : PastEnd(j, res.at))
                => ResolvedPair(key) = Anim(LastOn(key)).to

\* C26: once every animation on a pair has started and finished (at >= start
\* for every one, and at >= end for every ranged one), the pair resolves to
\* the `to` of the animation last in stable start order, whether or not the
\* ranges overlapped and whichever ended last.
C26_FinishedLastWins ==
    res.phase = "resolved" =>
        \A key \in AnimatedKeys(res.timeline) :
            (\A j \in AnimsOn(key) :
                 DurGe(res.at, Anim(j).start) /\ PastEnd(j, res.at))
                => ResolvedPair(key) = Anim(LastOn(key)).to

\* Two overlapping ranges, the one that starts first ends last
C26_Witness ==
    /\ res.phase = "resolved"
    /\ Len(res.timeline.animations) = 2
    /\ Anim(1).start = DurationFromSecs(0)
    /\ Anim(1).end = Some(DurationFromSecs(3))
    /\ Anim(2).start = DurationFromSecs(1)
    /\ Anim(2).end = Some(DurationFromSecs(2))
    /\ res.at = DurationFromSecs(3)
    /\ ResolvedPair(<< "sq", "size" >>) = Anim(2).to

(***************************************************************************)
(* Properties of the animations of two pairs (SpecCross).                  *)
(***************************************************************************)
\* Another value of the same kind
Shifted(value) ==
    IF value.k = "Number" THEN Number(F64Add(value.n, F(13)))
    ELSE IF value.k = "Tuple" THEN Tuple(F64Add(value.y, F(13)), value.x)
    ELSE value

\* The scene with another base value in every property but the key's
OtherBasesChanged(scene, key) ==
    LET o == FindByName(scene.items, key[1])
        p == FindByName(scene.items[o].properties, key[2])
    IN  [scene EXCEPT !.items =
            [n \in DOMAIN scene.items |->
                [scene.items[n] EXCEPT !.properties =
                    [q \in DOMAIN scene.items[n].properties |->
                        IF n = o /\ q = p THEN scene.items[n].properties[q]
                        ELSE [scene.items[n].properties[q] EXCEPT
                                 !.value = Shifted(@)]]]]]

\* The timeline without the animations of the other pairs
OthersRemoved(timeline, key) ==
    Timeline(SelectSeq(timeline.animations, LAMBDA a : IsRelevant(a, key)))

\* The timeline with every animation of another pair changed: it starts a
\* second later, is instantaneous, goes to another value, is not eased
OthersChanged(timeline, key) ==
    Timeline([j \in DOMAIN timeline.animations |->
                 LET a == timeline.animations[j]
                 IN  IF IsRelevant(a, key) THEN a
                     ELSE [a EXCEPT !.start = DurationFromSecs(a.start.secs + 1),
                                    !.end = None,
                                    !.to = Shifted(@),
                                    !.easing = None]])

\* The timeline with one more animation, of a declared pair that is not the
\* key, declared first
OtherAdded(timeline, key) ==
    Timeline(<< IF key = << "other", "size" >>
                THEN Animation(DurationFromSecs(0), None, "sq", "size",
                               Number(F(1)), None)
                ELSE Animation(DurationFromSecs(0), None, "other", "size",
                               Number(F(1)), None) >>
             \o timeline.animations)

\* Scenes and timelines that agree with the declared ones on the key's base
\* value and on the animations of the key
VariantsOf(key) ==
    { res.scene, OtherBasesChanged(res.scene, key) }
    \X { res.timeline, OthersRemoved(res.timeline, key),
         OthersChanged(res.timeline, key), OtherAdded(res.timeline, key) }

\* C23: per-pair noninterference: the resolved value of a pair depends only
\* on the pair's declared base value, the animations that target the pair
\* and the timestamp: another base value in any other property, and
\* animations of other declared pairs removed, changed or added, leave it
\* the same.
C23_PairNoninterference ==
    res.phase = "resolved" =>
        \A key \in AnimatedKeys(res.timeline) :
            \A v \in VariantsOf(key) :
                \A o \in KeyOrders(v[2]) :
                    LET r == apply_animations(v[1], v[2], res.at, o)
                    IN  /\ ~r.panicked
                        /\ InitialValue(r.scene, key) = Some(ResolvedPair(key))

C23_Witness ==
    /\ res.phase = "resolved"
    /\ Cardinality(AnimatedKeys(res.timeline)) = 2
    /\ \A key \in AnimatedKeys(res.timeline) :
          /\ ResolvedPair(key) # DeclaredPair(key)
          /\ \E j \in AnimsOn(key) : ActiveAt(j, res.at)
          /\ OthersRemoved(res.timeline, key) # res.timeline

(***************************************************************************)
(* Properties of animate_script (Spec).                                    *)
(***************************************************************************)
\* The global index of the first frame of the n-th declared scene
OffsetOf(n) == SumFrames(script.scenes, n - 1)

\* What frame j of the n-th declared scene shows
ExpectedFrame(n, j) ==
    LET scene == script.scenes[n]
    IN  IF scene.timeline = None THEN scene
        ELSE apply_animations(scene, scene.timeline[1], FrameTime(j),
                              CHOOSE o \in KeyOrders(scene.timeline[1]) : TRUE).scene

ExpectedImage(n, j) ==
    IF gpu THEN render_scene_gpu(ExpectedFrame(n, j).items, script.camera)
    ELSE render_scene(ExpectedFrame(n, j), script.camera)

\* C2: frame offsets accumulate in declaration order: the offset of a scene
\* is the sum of the frame counts of the scenes before it, a worker's frame
\* j lands in slot offset + j, and when all scenes are done the slots
\* 0, 1, 2, ... are the frames of the scenes in declared order.
C2_OffsetsAccumulate ==
    /\ pc = "scene" => frame_offset = OffsetOf(k)
    /\ pc \in { "par_frames", "par_saves" } =>
          \A j \in DOMAIN tasks :
              tasks[j].pc = "done" =>
                  /\ OffsetOf(k) + j \in DOMAIN slots[1]
                  /\ slots[1][OffsetOf(k) + j].image = ExpectedImage(k, j)
    /\ pc = "ffmpeg" =>
          /\ slots # None
          /\ DOMAIN slots[1] = 0 .. OffsetOf(Len(script.scenes) + 1) - 1
          /\ \A n \in 1 .. Len(script.scenes) :
                \A j \in 0 .. NumFrames(script.scenes[n].duration) - 1 :
                    slots[1][OffsetOf(n) + j].image = ExpectedImage(n, j)

C2_Witness ==
    /\ pc = "ffmpeg"
    /\ ~gpu
    /\ Len(script.scenes) = 2
    /\ script.scenes[1].timeline # None
    /\ script.scenes[2].timeline = None
    /\ DOMAIN slots[1] = 0 .. 4
    /\ slots[1][3].image = render_scene(script.scenes[2], script.camera)
    /\ slots[1][2].image # slots[1][3].image

\* C3: in CPU mode, for a scene with a timeline, whatever the interleaving
\* of the workers, the slot of a finished local frame j holds the render of
\* the declared scene resolved at j/60 seconds.
C3_ParallelFramesIndependent ==
    pc = "par_frames" =>
        \A j \in DOMAIN tasks :
            tasks[j].pc = "done" =>
                \A o \in KeyOrders(CurrentScene.timeline[1]) :
                    slots[1][frame_offset + j].image =
                        render_scene(
                            apply_animations(CurrentScene, CurrentScene.timeline[1],
                                             FrameTime(j), o).scene,
                            script.camera)

C3_Witness ==
    /\ pc = "par_frames"
    /\ num_frames = 3
    /\ \A j \in DOMAIN tasks : tasks[j].pc = "done"
    /\ \A j, h \in DOMAIN tasks :
          j # h => slots[1][frame_offset + j].image # slots[1][frame_offset + h].image

\* C4: in GPU mode at most one render call holds the device context, a call
\* completes before the next one begins, calls are made scene by scene in
\* ascending frame order and there are no worker tasks; in CPU mode there is
\* no device context and every image a worker holds was drawn on the CPU.
C4_GpuSerial ==
    /\ gpu_state # None =>
          /\ Cardinality(gpu_state[1].holders) <= 1
          /\ Len(gpu_state[1].calls) - gpu_state[1].finished
                = Cardinality(gpu_state[1].holders)
          /\ \A x, y \in 1 .. Len(gpu_state[1].calls) :
                x < y =>
                    \/ gpu_state[1].calls[x][1] < gpu_state[1].calls[y][1]
                    \/ /\ gpu_state[1].calls[x][1] = gpu_state[1].calls[y][1]
                       /\ gpu_state[1].calls[x][2] < gpu_state[1].calls[y][2]
    /\ gpu => tasks = << >>
    /\ ~gpu =>
          /\ gpu_state = None
          /\ \A j \in DOMAIN tasks :
                tasks[j].image # None => tasks[j].image[1].renderer = "cpu"

C4_Witness ==
    /\ gpu
    /\ pc = "gpu_rendering"
    /\ i = 2
    /\ gpu_state[1].holders = { << k, 2 >> }
    /\ gpu_state[1].finished = Len(gpu_state[1].calls) - 1
    /\ Len(gpu_state[1].calls) >= 3

\* C5: no step of animate_script changes the scenes the script holds,
\* however many frames are resolved, in either mode.
C5_SceneNeverMutated == [][script' = script]_vars

C5_Witness ==
    \/ /\ pc = "par_frames"
       /\ \A j \in DOMAIN tasks : tasks[j].frame_scene # None
       /\ \E j \in DOMAIN tasks : tasks[j].frame_scene[1] # CurrentScene
       /\ CurrentScene = MovingScene(CurrentScene.name)
    \/ /\ pc = "gpu_render"
       /\ i = 2
       /\ frame_scene # None
       /\ frame_scene[1] # CurrentScene
       /\ CurrentScene = MovingScene(CurrentScene.name)

\* The scene declares the pair the animation targets
DeclaresTarget(scene, anim) ==
    \E o \in 1 .. Len(scene.items) :
        /\ scene.items[o].name = anim.target_object
        /\ \E p \in 1 .. Len(scene.items[o].properties) :
              scene.items[o].properties[p].name = anim.property

\* The scene has frames to resolve and its timeline has an animation whose
\* target object or target property the scene does not declare
HasMissingTarget(scene) ==
    /\ scene.timeline # None
    /\ NumFrames(scene.duration) > 0
    /\ \E j \in 1 .. Len(scene.timeline[1].animations) :
          ~DeclaresTarget(scene, scene.timeline[1].animations[j])

\* C11: a missing animation target is fatal: the run never gets past a
\* scene whose timeline targets an object or a property the scene does not
\* declare, and while that scene is the current one no frame of it has been
\* resolved, rendered (by a worker or by the device) or written to a slot,
\* even at timestamps before the start of the offending animation.
C11_MissingTargetIsFatal ==
    \A n \in 1 .. Len(script.scenes) :
        HasMissingTarget(script.scenes[n]) =>
            /\ k <= n
            /\ pc \notin { "ffmpeg", "cleanup", "done" }
            /\ k = n =>
                  /\ frame_scene = None
                  /\ image = None
                  /\ \A j \in DOMAIN tasks :
                        /\ tasks[j].frame_scene = None
                        /\ tasks[j].image = None
                        /\ tasks[j].pc \in { "ready", "panicked", "abandoned" }
                  /\ gpu_state # None =>
                        \A x \in 1 .. Len(gpu_state[1].calls) :
                            gpu_state[1].calls[x][1] # n
                  /\ slots # None /\ \A x \in DOMAIN slots[1] : x < frame_offset

C11_Witness ==
    /\ pc = "panicked"
    /\ ~gpu
    /\ k = 2
    /\ Len(script.scenes) = 2
    /\ CurrentScene = HollowScene(CurrentScene.name)
    /\ \A j \in DOMAIN tasks : tasks[j].pc = "panicked"
    /\ \A j \in DOMAIN tasks :
          DurLt(FrameTime(j), CurrentScene.timeline[1].animations[2].start)
    /\ frame_offset = 3
    /\ DOMAIN slots[1] = 0 .. 2

\* C13: when ffmpeg exits unsuccessfully the frames written are left in
\* place, every slot 0 .. total_frames - 1 with its content, and the run
\* does not end the way a successful run ends.
C13_EncodeFailureKeepsFrames ==
    (ffmpeg # None /\ ~ffmpeg[1].success) =>
        /\ pc # "done"
        /\ slots # None
        /\ DOMAIN slots[1] = 0 .. total_frames - 1
        /\ \A n \in 1 .. Len(script.scenes) :
              \A j \in 0 .. NumFrames(script.scenes[n].duration) - 1 :
                  slots[1][OffsetOf(n) + j].image = ExpectedImage(n, j)

\* The render of the n-th declared scene as declared, in the run's mode
DeclaredImage(n) ==
    IF gpu THEN render_scene_gpu(script.scenes[n].items, script.camera)
    ELSE render_scene(script.scenes[n], script.camera)

\* The run has called the renderer for the n-th scene, a static one
StaticRenderCalled(n) ==
    \/ k > n
    \/ k = n /\ pc \in { "gpu_rendering", "gpu_static_save", "par_saves" }

\* C14: for a scene without a timeline, in either mode, the renderer is
\* called exactly once (never for a frame index, never by a worker), on the
\* declared scene, and every slot of the scene holds that image: what a
\* render of the declared scene for each frame index gives.
C14_StaticRenderedOnce ==
    \A n \in 1 .. Len(script.scenes) :
        script.scenes[n].timeline = None =>
            /\ \A c \in DOMAIN renders :
                  c.scene = n => c = RenderCall(n, None) /\ renders[c] = 1
            /\ RenderCall(n, None) \in DOMAIN renders <=> StaticRenderCalled(n)
            /\ k = n =>
                  /\ image # None => image[1] = DeclaredImage(n)
                  /\ frame_scene = None
                  /\ \A j \in DOMAIN tasks :
                        tasks[j].image = None /\ tasks[j].frame_scene = None
            /\ (slots # None /\ k >= n) =>
                  \A j \in 0 .. NumFrames(script.scenes[n].duration) - 1 :
                      /\ k > n => OffsetOf(n) + j \in DOMAIN slots[1]
                      /\ OffsetOf(n) + j \in DOMAIN slots[1] =>
                            slots[1][OffsetOf(n) + j].image = DeclaredImage(n)

C14_Witness ==
    /\ pc = "ffmpeg"
    /\ gpu
    /\ Len(script.scenes) = 2
    /\ script.scenes[1].timeline = None
    /\ script.scenes[2] = StillScene(script.scenes[2].name)
    /\ renders[RenderCall(2, None)] = 1
    /\ { 2, 3 } \subseteq DOMAIN slots[1]
    /\ slots[1][2].image = DeclaredImage(2)
    /\ slots[1][3].image = slots[1][2].image

\* The frame count of every declared scene
FrameCounts ==
    [n \in 1 .. Len(script.scenes) |-> NumFrames(script.scenes[n].duration)]

\* The sum of the first n of the counts
RECURSIVE SumOf(_, _)
SumOf(counts, n) == IF n = 0 THEN 0 ELSE SumOf(counts, n - 1) + counts[n]

\* C28: no frame slot is written twice: the frames of a scene go to
\* distinct slots, the slots of different scenes are disjoint, and when all
\* scenes are processed the written slots are exactly 0 .. total - 1, total
\* the sum of the frame counts of the scenes computed before rendering.
C28_SlotsWrittenOnce ==
    (pc \notin { "idle", "start" } /\ script.scenes # << >> /\ slots # None) =>
        LET counts == FrameCounts
            first  == [n \in 1 .. Len(script.scenes) |-> SumOf(counts, n - 1)]
            range  == [n \in 1 .. Len(script.scenes) |->
                          first[n] .. first[n] + counts[n] - 1]
        IN  /\ \A x \in DOMAIN slots[1] : slots[1][x].writes = 1
            \* the slots of the scenes done are all written, the others are
            \* slots of the scene in progress
            /\ \A x \in 0 .. frame_offset - 1 : x \in DOMAIN slots[1]
            /\ \A x \in DOMAIN slots[1] : x < frame_offset + num_frames
            /\ pc \in { "par_frames", "par_saves" } =>
                  \A t \in DOMAIN tasks :
                      tasks[t].pc = "done" =>
                          /\ t < num_frames
                          /\ frame_offset + t \in DOMAIN slots[1]
            \* at the head of the loop and after it
            /\ pc \in { "scene", "ffmpeg" } =>
                  /\ total_frames = SumOf(counts, Len(script.scenes))
                  /\ DOMAIN slots[1] = 0 .. SumOf(counts, k - 1) - 1
                  /\ frame_offset = SumOf(counts, k - 1)
                  /\ \A n, m \in 1 .. Len(script.scenes) :
                        n # m => range[n] \cap range[m] = {}
            /\ pc = "ffmpeg" => DOMAIN slots[1] = 0 .. total_frames - 1

\* The slots of the frames of the n-th declared scene
SlotsOf(n) ==
    SumOf(FrameCounts, n - 1) .. SumOf(FrameCounts, n - 1) + FrameCounts[n] - 1

C28_Witness ==
    /\ pc = "ffmpeg"
    /\ ~gpu
    /\ Len(script.scenes) = 2
    /\ script.scenes[1].timeline # None
    /\ Cardinality(SlotsOf(1)) >= 2
    /\ Cardinality(SlotsOf(2)) >= 2
    /\ total_frames = Cardinality(SlotsOf(1)) + Cardinality(SlotsOf(2))
    /\ DOMAIN slots[1] = 0 .. total_frames - 1
    /\ \A x \in DOMAIN slots[1] : slots[1][x].writes = 1

\* C29: the frame size handed to ffmpeg is the width and height of every
\* frame image written, in CPU and in GPU mode, with or without a width and
\* height in the camera.
C29_FfmpegSizeMatchesFrames ==
    (pc = "cleanup" /\ ffmpeg # None /\ slots # None) =>
        \A x \in DOMAIN slots[1] :
            /\ slots[1][x].image.width = ffmpeg[1].size[1]
            /\ slots[1][x].image.height = ffmpeg[1].size[2]

(***************************************************************************)
(* Properties of parse_str and main (SpecMain).                            *)
(***************************************************************************)
\* The temp_timelines the linking loop has gone through
LinkedSoFar == 1 .. parse.next - 1

\* The timeline names no declared scene
NamesNoScene(temp_timeline) ==
    \A n \in 1 .. Len(parse.declared) :
        parse.declared[n].name # temp_timeline.scene_name

\* No timeline gone through so far names the scene
HasNoTimeline(scene) ==
    \A j \in LinkedSoFar : parse.temp_timelines[j].scene_name # scene.name

\* The names warned about so far, from temp_timeline j on
RECURSIVE WarnedFrom(_)
WarnedFrom(j) ==
    IF j >= parse.next THEN << >>
    ELSE (IF NamesNoScene(parse.temp_timelines[j])
          THEN << parse.temp_timelines[j].scene_name >> ELSE << >>)
         \o WarnedFrom(j + 1)

\* C12: a timeline that names no declared scene is dropped with a warning
\* and is no error: every declared scene is kept as declared, a scene that
\* no timeline names has no timeline, every such timeline is warned about
\* and nothing else is, parse_str returns the scenes to main, and
\* animate_script renders a scene without a timeline once and saves that
\* render for every frame of it.
C12_UnmatchedTimelineDropped ==
    parse.phase # "idle" =>
        /\ parse.phase \in { "linking", "ok" }
        /\ Len(parse.scenes) = Len(parse.declared)
        /\ \A n \in 1 .. Len(parse.declared) :
              /\ parse.scenes[n].name = parse.declared[n].name
              /\ parse.scenes[n].items = parse.declared[n].items
              /\ parse.scenes[n].duration = parse.declared[n].duration
              /\ HasNoTimeline(parse.declared[n]) => parse.scenes[n].timeline = None
        /\ parse.warnings = WarnedFrom(1)
        /\ parse.phase = "ok" =>
              /\ script.scenes = parse.scenes
              /\ \A n \in 1 .. Len(script.scenes) :
                    HasNoTimeline(parse.declared[n]) =>
                        /\ k = n => /\ pc \notin { "gpu_frame", "gpu_save", "par_frames",
                                                   "panicked" }
                                    /\ frame_scene = None
                        /\ pc = "ffmpeg" =>
                              \A j \in 0 .. NumFrames(script.scenes[n].duration) - 1 :
                                  slots[1][OffsetOf(n) + j].image
                                      = IF gpu
                                        THEN render_scene_gpu(parse.declared[n].items,
                                                              script.camera)
                                        ELSE render_scene(parse.declared[n],
                                                          script.camera)

C12_Witness ==
    /\ parse.phase = "ok"
    /\ pc = "ffmpeg"
    /\ Len(parse.temp_timelines) = 2
    /\ parse.warnings = << "nowhere" >>
    /\ Len(script.scenes) = 2
    /\ script.scenes[1].timeline # None
    /\ script.scenes[2].timeline = None
    /\ HasNoTimeline(parse.declared[2])
    /\ slots # None
    /\ DOMAIN slots[1] = 0 .. total_frames - 1
    /\ total_frames = 5

\* The timeline blocks gone through so far that name the scene
BlocksNaming(name) ==
    { j \in LinkedSoFar : parse.temp_timelines[j].scene_name = name }

\* The n-th scene is the first declared one of its name
IsFirstOfName(n) ==
    \A h \in 1 .. n - 1 : parse.declared[h].name # parse.declared[n].name

\* C30: a scene has at most one timeline, linked by name: of several
\* timeline blocks that name a scene the last in source order gives the
\* scene its animations, the earlier ones are replaced and not merged, and
\* of several scenes of one name only the first declared gets the timeline.
C30_LastTimelineFirstScene ==
    parse.phase # "idle" =>
        \A n \in 1 .. Len(parse.scenes) :
            LET blocks == BlocksNaming(parse.declared[n].name)
            IN  parse.scenes[n].timeline =
                    IF IsFirstOfName(n) /\ blocks # {}
                    THEN Some(Timeline(
                             parse.temp_timelines[
                                 CHOOSE j \in blocks : \A h \in blocks : h <= j
                             ].animations))
                    ELSE None

C30_Witness ==
    /\ parse.phase = "ok"
    /\ Len(parse.scenes) = 2
    /\ parse.declared[1].name = "one"
    /\ parse.declared[2].name = "one"
    /\ Len(parse.temp_timelines) = 2
    /\ BlocksNaming("one") = { 1, 2 }
    /\ parse.temp_timelines[1].animations # parse.temp_timelines[2].animations
    /\ parse.scenes[1].timeline = Some(Timeline(parse.temp_timelines[2].animations))
    /\ parse.scenes[2].timeline = None
    /\ script.scenes = parse.scenes

(***************************************************************************)
(* Properties of lerp (SpecLerp).                                          *)
(***************************************************************************)
LerpStart == lerp_call.start

LerpEnd == lerp_call.end

LerpResult == lerp_call.result[1]

\* C19: lerp on two Numbers returns start + (end - start) * factor, on two
\* Tuples the same per component; factor 0 returns start and factor 1
\* returns end.
C19_LerpNumberTuple ==
    ( /\ lerp_call.phase = "returned"
      /\ LerpStart.k = LerpEnd.k
      /\ LerpStart.k \in { "Number", "Tuple" } )
    => LET f == lerp_call.factor
           At(s, e) == F64Add(s, F64Mul(F64Sub(e, s), f))
       IN  /\ LerpStart.k = "Number" =>
                 LerpResult = Number(At(LerpStart.n, LerpEnd.n))
           /\ LerpStart.k = "Tuple" =>
                 LerpResult = Tuple(At(LerpStart.x, LerpEnd.x),
                                    At(LerpStart.y, LerpEnd.y))
           /\ f = F(0) => LerpResult = LerpStart
           /\ f = F(1) => LerpResult = LerpEnd

\* A color string of the form #rrggbb
WellFormed(hex) ==
    /\ Len(hex) = 7
    /\ hex[1] = "#"
    /\ \A j \in 2 .. 7 : HexVal(hex[j]) >= 0

\* The position of a lowercase hexadecimal digit, from 0
LowerHex(c) == (CHOOSE j \in 1 .. 16 : HexDigits[j] = c) - 1

\* v is the f64 x cut to an integer of 0..255: the integer part of x, 0 for
\* a negative x and 255 for an x of 255 or more
CutToByte(v, x) ==
    /\ v \in 0 .. 255
    /\ IF F64Lt(x, F(0)) THEN v = 0
       ELSE IF F64Le(F(255), x) THEN v = 255
       ELSE F64Le(F(v), x) /\ F64Lt(x, F(v + 1))

\* C20: lerp on two Colors interpolates the red, green and blue channel each
\* on its own, cuts each interpolated channel to its integer part in 0..255
\* without rounding, and writes the result as a lowercase #rrggbb string;
\* lerp(#000000, #ffffff, 0.5) is #7f7f7f.
C20_LerpColor ==
    ( /\ lerp_call.phase = "returned"
      /\ LerpStart.k = "Color" /\ LerpEnd.k = "Color"
      /\ WellFormed(LerpStart.hex) /\ WellFormed(LerpEnd.hex) )
    => LET s   == hex_to_rgb(LerpStart.hex)
           e   == hex_to_rgb(LerpEnd.hex)
           out == LerpResult.hex
       IN  /\ LerpResult.k = "Color"
           /\ Len(out) = 7
           /\ out[1] = "#"
           /\ \A j \in 2 .. 7 : \E d \in 1 .. 16 : HexDigits[d] = out[j]
           /\ \A c \in 1 .. 3 :
                 CutToByte(16 * LowerHex(out[2 * c]) + LowerHex(out[2 * c + 1]),
                           F64Add(F(s[c]),
                                  F64Mul(F64Sub(F(e[c]), F(s[c])),
                                         lerp_call.factor)))
           /\ ( /\ LerpStart.hex = << "#", "0", "0", "0", "0", "0", "0" >>
                /\ LerpEnd.hex = << "#", "f", "f", "f", "f", "f", "f" >>
                /\ lerp_call.factor = F64Half )
              => out = << "#", "7", "f", "7", "f", "7", "f" >>

C20_Witness ==
    /\ lerp_call.phase = "returned"
    /\ LerpStart = Color(<< "#", "0", "0", "0", "0", "0", "0" >>)
    /\ LerpEnd = Color(<< "#", "f", "f", "f", "f", "f", "f" >>)
    /\ lerp_call.factor = F64Half
    /\ LerpResult = Color(<< "#", "7", "f", "7", "f", "7", "f" >>)

============================================================================
